---- MODULE Spec2Model ----
(***************************************************************************)
(* metaL core: the Object hypergraph node (src/metaL.py, class Object) and *)
(* its tree-construction algebra.                                          *)
(*                                                                         *)
(* Python values are tagged records (PyVal); a node is a heap cell and its *)
(* identity is its index in the heap.  Every operator of the algebra is an *)
(* operator from a heap and its arguments to an outcome record             *)
(*   [heap |-> heap after the call (also when it raised),                  *)
(*    ret  |-> the returned value,                                         *)
(*    exc  |-> the exception raised, NoExc when the call returned].        *)
(***************************************************************************)
EXTENDS Integers, Sequences, FiniteSets, TLC

VARIABLES
    heap,   \* the nodes: heap[i] is the node of identity i
    old,    \* the heap before the last call
    last,   \* the last call: its operator, arguments and outcome
    prev,   \* the call before the last one
    chain,  \* the fluent expression A // v1 // ... // vn being evaluated
    steps,  \* the number of calls made
    out,    \* the last traversal (dump or gen) of the graph and what it returned
    cycleDefault,   \* the list that is the default of the parameter cycle of dump
    disk    \* what each file on the disk holds, by path

vars == <<heap, old, last, prev, chain, steps, out, cycleDefault, disk>>

(***************************************************************************)
(* Bounds of the model.                                                    *)
(***************************************************************************)
\* number of algebra calls in one behaviour
MaxSteps == 2
\* longest nest a call may build
MaxNest == 5
\* deepest recursion of a traversal before Python raises RecursionError
MaxDepth == 8

(***************************************************************************)
(* Python values.                                                          *)
(***************************************************************************)
Ref(i) == [t |-> "ref", s |-> "", n |-> i]
Str(x) == [t |-> "str", s |-> x, n |-> 0]
IntV(k) == [t |-> "int", s |-> "", n |-> k]
NoneV == [t |-> "none", s |-> "", n |-> 0]

\* isinstance(v, Object)
IsNode(v) == v.t = "ref"
\* isinstance(v, str)
IsStr(v) == v.t = "str"
\* isinstance(v, int)
IsInt(v) == v.t = "int"

\* type(v), by name
TypeOf(h, v) ==
    CASE v.t = "ref" -> h[v.n].cls
      [] v.t = "str" -> "str"
      [] v.t = "int" -> "int"
      [] OTHER -> "NoneType"

\* f'{v}' for the scalars a node value can hold
DigitStr(k) ==
    CASE k = 0 -> "0" [] k = 1 -> "1" [] k = 2 -> "2" [] k = 3 -> "3"
      [] k = 4 -> "4" [] k = 5 -> "5" [] k = 6 -> "6" [] k = 7 -> "7"
      [] k = 8 -> "8" [] OTHER -> "9"

FormatValue(v) ==
    CASE v.t = "str" -> v.s
      [] v.t = "int" -> DigitStr(v.n)
      [] OTHER -> "None"

\* cls.__name__.lower()
LowerName(c) ==
    CASE c = "Object" -> "object"
      [] c = "S" -> "s"
      [] c = "Sec" -> "sec"
      [] c = "Vector" -> "vector"
      [] c = "DIV" -> "div"
      [] c = "SPAN" -> "span"
      [] c = "META" -> "meta"
      [] c = "Fn" -> "fn"
      [] c = "Meth" -> "meth"
      [] c = "Class" -> "class"
      [] c = "Dir" -> "dir"
      [] c = "File" -> "file"
      [] c = "pyFile" -> "pyfile"
      [] c = "rsFile" -> "rsfile"
      [] OTHER -> c

(***************************************************************************)
(* Exceptions.                                                             *)
(***************************************************************************)
NoExc == [kind |-> "none", where |-> "", type |-> "", value |-> NoneV]
TypeError(w, ty, v) == [kind |-> "TypeError", where |-> w, type |-> ty, value |-> v]
AssertionError == [kind |-> "AssertionError", where |-> "", type |-> "", value |-> NoneV]
IndexError == [kind |-> "IndexError", where |-> "pop", type |-> "", value |-> NoneV]
RecursionError == [kind |-> "RecursionError", where |-> "", type |-> "", value |-> NoneV]
AttributeError == [kind |-> "AttributeError", where |-> "gen", type |-> "", value |-> NoneV]
FileNotFoundError == [kind |-> "FileNotFoundError", where |-> "", type |-> "", value |-> NoneV]
NotADirectoryError == [kind |-> "NotADirectoryError", where |-> "", type |-> "", value |-> NoneV]
IsADirectoryError == [kind |-> "IsADirectoryError", where |-> "", type |-> "", value |-> NoneV]

Return(h, v) == [heap |-> h, ret |-> v, exc |-> NoExc]
Raise(h, e) == [heap |-> h, ret |-> NoneV, exc |-> e]

(***************************************************************************)
(* Nodes.                                                                  *)
(***************************************************************************)
EmptySlot == [k \in {} |-> NoneV]

\* Object.__init__
Object(c, V) ==
    [cls |-> c, value |-> V, slot |-> EmptySlot, nest |-> <<>>,
     end |-> NoneV, pfx |-> NoneV, sfx |-> NoneV,
     args |-> <<>>, ret |-> NoneV, sup |-> <<>>,
     path |-> NoneV, top |-> NoneV, bot |-> NoneV]

\* S.__init__ with the default end, pfx, sfx
NewS(V) == [Object("S", V) EXCEPT !.end = NoneV, !.pfx = NoneV, !.sfx = NoneV]

\* Object.tag
Tag(h, v) == LowerName(h[v.n].cls)

\* Object.val
Val(h, v) == FormatValue(h[v.n].value)

\* a box that wraps whatever is not a node
BoxAny(h, that) ==
    IF IsNode(that) THEN Return(h, that)
    ELSE Return(Append(h, NewS(that)), Ref(Len(h) + 1))

\* Object.box
Box(h, that) ==
    IF IsNode(that) THEN Return(h, that)
    ELSE IF IsStr(that) THEN Return(Append(h, NewS(that)), Ref(Len(h) + 1))
    ELSE Raise(h, TypeError("box", TypeOf(h, that), that))

\* a store that keeps the entry a key already has
SlotKeep(slot, key, that) ==
    [k \in (DOMAIN slot) \cup {key} |-> IF k \in DOMAIN slot THEN slot[k] ELSE that]

\* self.slot[key] = that
SlotPut(slot, key, that) ==
    [k \in (DOMAIN slot) \cup {key} |-> IF k = key THEN that ELSE slot[k]]

\* Object.__getitem__ with a string key
GetItem(h, self, key) == h[self.n].slot[key]

\* an assignment that checks the key before it boxes the value
SetItemKeyFirst(h, self, key, that) ==
    IF ~IsStr(key) THEN Raise(h, TypeError("__setitem__", TypeOf(h, key), key))
    ELSE IF IsNode(that) \/ IsStr(that)
         THEN LET b == Box(h, that) IN
              Return([b.heap EXCEPT ![self.n].slot = SlotPut(@, key, b.ret)], self)
         ELSE Return(h, self)

\* Object.__setitem__
SetItem(h, self, key, that) ==
    LET b == Box(h, that) IN
    IF b.exc # NoExc THEN b
    ELSE IF IsStr(key)
         THEN Return([b.heap EXCEPT ![self.n].slot = SlotPut(@, key, b.ret)], self)
         ELSE Raise(b.heap, TypeError("__setitem__", TypeOf(b.heap, key), key))

\* a << that files its argument by value
LShiftByVal(h, self, that) ==
    LET b == Box(h, that) IN
    IF b.exc # NoExc THEN b
    ELSE SetItem(b.heap, self, Str(Val(b.heap, b.ret)), b.ret)

\* Object.__lshift__
LShift(h, self, that) ==
    LET b == Box(h, that) IN
    IF b.exc # NoExc THEN b
    ELSE SetItem(b.heap, self, Str(Tag(b.heap, b.ret)), b.ret)

\* Object.__rshift__
RShift(h, self, that) ==
    LET b == Box(h, that) IN
    IF b.exc # NoExc THEN b
    ELSE SetItem(b.heap, self, Str(Val(b.heap, b.ret)), b.ret)

\* a push that stores its argument as it is given
FloorDivRaw(h, self, that) ==
    Return([h EXCEPT ![self.n].nest = Append(@, that)], self)

\* a push that puts the child at the head of the nest
FloorDivHead(h, self, that) ==
    LET b == Box(h, that) IN
    IF b.exc # NoExc THEN b
    ELSE Return([b.heap EXCEPT ![self.n].nest = <<b.ret>> \o @], self)

\* a push that files the receiver in the child as its parent
FloorDivAdopt(h, self, that) ==
    LET b == Box(h, that) IN
    IF b.exc # NoExc THEN b
    ELSE Return([b.heap EXCEPT ![self.n].nest = Append(@, b.ret),
                               ![b.ret.n].slot = SlotPut(@, Str("parent"), self)],
                self)

\* Object.__floordiv__
FloorDiv(h, self, that) ==
    LET b == Box(h, that) IN
    IF b.exc # NoExc THEN b
    ELSE Return([b.heap EXCEPT ![self.n].nest = Append(@, b.ret)], self)

\* an insert that takes a negative index for the head of the list
ListInsertClamp(s, idx, x) ==
    LET n == Len(s)
        i == IF idx < 0 THEN 0 ELSE IF idx > n THEN n ELSE idx
    IN SubSeq(s, 1, i) \o <<x>> \o SubSeq(s, i + 1, n)

\* list.insert: a negative index counts from the end, and an index outside the
\* list is clamped to its nearest end
ListInsert(s, idx, x) ==
    LET n == Len(s)
        i0 == IF idx < 0 THEN idx + n ELSE idx
        i == IF i0 < 0 THEN 0 ELSE IF i0 > n THEN n ELSE i0
    IN SubSeq(s, 1, i) \o <<x>> \o SubSeq(s, i + 1, n)

\* Object.ins
Ins(h, self, idx, that) ==
    IF ~IsInt(idx) THEN Raise(h, AssertionError)
    ELSE LET b == Box(h, that) IN
         IF b.exc # NoExc THEN b
         ELSE Return([b.heap EXCEPT ![self.n].nest = ListInsert(@, idx.n, b.ret)], self)

\* a loop that drops the first occurrence alone
RECURSIVE RemoveFirst(_, _)
RemoveFirst(nest, that) ==
    IF nest = <<>> THEN <<>>
    ELSE IF Head(nest) = that THEN Tail(nest)
    ELSE <<Head(nest)>> \o RemoveFirst(Tail(nest), that)

\* the loop of Object.remove
RECURSIVE RemoveLoop(_, _)
RemoveLoop(nest, that) ==
    IF nest = <<>> THEN <<>>
    ELSE (IF Head(nest) # that THEN <<Head(nest)>> ELSE <<>>)
         \o RemoveLoop(Tail(nest), that)

\* Object.remove
Remove(h, self, that) ==
    IF ~IsNode(that) THEN Raise(h, AssertionError)
    ELSE Return([h EXCEPT ![self.n].nest = RemoveLoop(@, that)], self)

\* the loop of Object.before
RECURSIVE BeforeLoop(_, _, _)
BeforeLoop(nest, where, that) ==
    IF nest = <<>> THEN <<>>
    ELSE (IF Head(nest) = where THEN <<that>> ELSE <<>>)
         \o <<Head(nest)>> \o BeforeLoop(Tail(nest), where, that)

\* Object.before
Before(h, self, where, that) ==
    IF ~IsNode(where) THEN Raise(h, AssertionError)
    ELSE LET b == Box(h, that) IN
         IF b.exc # NoExc THEN b
         ELSE Return([b.heap EXCEPT ![self.n].nest = BeforeLoop(@, where, b.ret)], self)

\* a loop that puts the child after the first occurrence alone
RECURSIVE AfterFirst(_, _, _)
AfterFirst(nest, where, that) ==
    IF nest = <<>> THEN <<>>
    ELSE IF Head(nest) = where THEN <<Head(nest), that>> \o Tail(nest)
    ELSE <<Head(nest)>> \o AfterFirst(Tail(nest), where, that)

\* the loop of Object.after
RECURSIVE AfterLoop(_, _, _)
AfterLoop(nest, where, that) ==
    IF nest = <<>> THEN <<>>
    ELSE <<Head(nest)>> \o (IF Head(nest) = where THEN <<that>> ELSE <<>>)
         \o AfterLoop(Tail(nest), where, that)

\* Object.after
After(h, self, where, that) ==
    IF ~IsNode(where) THEN Raise(h, AssertionError)
    ELSE LET b == Box(h, that) IN
         IF b.exc # NoExc THEN b
         ELSE Return([b.heap EXCEPT ![self.n].nest = AfterLoop(@, where, b.ret)], self)

\* Object.dropall
DropAll(h, self) == Return([h EXCEPT ![self.n].nest = <<>>], self)

\* list.pop(idx) is defined for -len <= idx < len
PopOk(s, idx) == Len(s) > 0 /\ idx >= 0 - Len(s) /\ idx < Len(s)

\* a pop that takes the head of the list whatever the index
ListPopHead(s, idx) == Tail(s)

\* list.pop(idx)
ListPop(s, idx) ==
    LET i == IF idx < 0 THEN idx + Len(s) + 1 ELSE idx + 1
    IN SubSeq(s, 1, i - 1) \o SubSeq(s, i + 1, Len(s))

\* Object.drop: num times self.nest.pop(idx)
RECURSIVE Drop(_, _, _, _)
Drop(h, self, idx, num) ==
    IF num <= 0 THEN Return(h, self)
    ELSE IF ~PopOk(h[self.n].nest, idx) THEN Raise(h, IndexError)
    ELSE Drop([h EXCEPT ![self.n].nest = ListPop(@, idx)], self, idx, num - 1)

(***************************************************************************)
(* Text dump.  A text is the sequence of the pieces it was put together    *)
(* from: "\n", "\t", a key, an index, a tag, a value and the literals of   *)
(* the format strings.                                                     *)
(***************************************************************************)
\* the strings used as slot keys, in the order of Python's str comparison
KeyOrder ==
    <<"", "A", "None", "a", "b", "class", "div", "id", "k", "meta", "object",
      "s", "sec", "span", "vector", "x">>

\* a < b on str
StrLess(a, b) ==
    \E i, j \in 1..Len(KeyOrder) : KeyOrder[i] = a /\ KeyOrder[j] = b /\ i < j

\* sorted(S), descending
RECURSIVE SortedDown(_)
SortedDown(S) ==
    IF S = {} THEN <<>>
    ELSE LET m == CHOOSE x \in S : \A y \in S : y = x \/ StrLess(y.s, x.s)
         IN <<m>> \o SortedDown(S \ {m})

\* sorted(S)
RECURSIVE Sorted(_)
Sorted(S) ==
    IF S = {} THEN <<>>
    ELSE LET m == CHOOSE x \in S : \A y \in S : y = x \/ StrLess(x.s, y.s)
         IN <<m>> \o Sorted(S \ {m})

\* keys that come in descending order
keysDown(h, self) == SortedDown(DOMAIN h[self.n].slot)

\* Object.keys
keys(h, self) == Sorted(DOMAIN h[self.n].slot)

\* pad(depth) of Object.dump
pad(depth) == <<"\n">> \o [i \in 1..depth |-> "\t"]

\* Object.head; the gid of a node is its identity
head(h, self, prefix, test) ==
    prefix \o <<"<", Tag(h, self), ":", Val(h, self), ">">>
           \o (IF test THEN <<>> ELSE <<" @", DigitStr(self.n)>>)

\* the children Object.dump visits, each with its prefix: the slots in the
\* order of keys(), then the nest
kids(h, self) ==
    LET ks == keys(h, self) IN
    [i \in 1..Len(ks) |->
        [node |-> h[self.n].slot[ks[i]], prefix |-> <<ks[i].s, " = ">>]]
    \o [j \in 1..Len(h[self.n].nest) |->
        [node |-> h[self.n].nest[j], prefix |-> <<DigitStr(j - 1), ": ">>]]

InList(x, l) == \E i \in 1..Len(l) : l[i] = x

RECURSIVE dumpNoCycle(_, _, _, _, _, _, _)
RECURSIVE dumpPath(_, _, _, _, _, _, _)
RECURSIVE dumpKeep(_, _, _, _, _, _, _)
RECURSIVE dump(_, _, _, _, _, _, _)
RECURSIVE dumpKids(_, _, _, _, _, _)

\* the two loops of Object.dump over the children; cycle is the one list all
\* the calls below the root append to
dumpKids(h, ks, cycle, depth, test, fuel) ==
    IF ks = <<>> THEN [text |-> <<>>, cycle |-> cycle, exc |-> NoExc, fresh |-> FALSE]
    ELSE LET a == dump(h, ks[1].node, cycle, depth, ks[1].prefix, test, fuel) IN
         IF a.exc # NoExc THEN a
         ELSE LET b == dumpKids(h, Tail(ks), a.cycle, depth, test, fuel) IN
              [text |-> a.text \o b.text, cycle |-> b.cycle, exc |-> b.exc,
               fresh |-> FALSE]

\* a dump that never looks at the cycle list
dumpNoCycle(h, self, cycle, depth, prefix, test, fuel) ==
    IF fuel = 0
    THEN [text |-> <<>>, cycle |-> cycle, exc |-> RecursionError, fresh |-> depth = 0]
    ELSE LET ret == pad(depth) \o head(h, self, prefix, test)
             r == dumpKids(h, kids(h, self), cycle, depth + 1, test, fuel - 1)
         IN [text |-> ret \o r.text, cycle |-> r.cycle, exc |-> r.exc,
             fresh |-> depth = 0]

\* a dump that takes a node off the list when it is done with it, so that
\* only the nodes above a node are on the list
dumpPath(h, self, cycle, depth, prefix, test, fuel) ==
    IF fuel = 0
    THEN [text |-> <<>>, cycle |-> cycle, exc |-> RecursionError, fresh |-> depth = 0]
    ELSE LET ret == pad(depth) \o head(h, self, prefix, test)
             cyc == IF depth = 0 THEN <<>> ELSE cycle
         IN IF InList(self, cyc)
            THEN [text |-> ret \o <<" _/">>, cycle |-> cyc, exc |-> NoExc,
                  fresh |-> depth = 0]
            ELSE LET r == dumpKids(h, kids(h, self), Append(cyc, self),
                                   depth + 1, test, fuel - 1)
                 IN [text |-> ret \o r.text, cycle |-> cyc, exc |-> r.exc,
                     fresh |-> depth = 0]

\* a dump that goes on with the list it is given at depth 0 too
dumpKeep(h, self, cycle, depth, prefix, test, fuel) ==
    IF fuel = 0
    THEN [text |-> <<>>, cycle |-> cycle, exc |-> RecursionError, fresh |-> FALSE]
    ELSE LET ret == pad(depth) \o head(h, self, prefix, test)
         IN IF InList(self, cycle)
            THEN [text |-> ret \o <<" _/">>, cycle |-> cycle, exc |-> NoExc,
                  fresh |-> FALSE]
            ELSE LET r == dumpKids(h, kids(h, self), Append(cycle, self),
                                   depth + 1, test, fuel - 1)
                 IN [text |-> ret \o r.text, cycle |-> r.cycle, exc |-> r.exc,
                     fresh |-> FALSE]

\* Object.dump; fuel is the number of frames left on the stack.  cycle of the
\* outcome is what the list the call appended to holds at the end; fresh
\* tells that this list is the one made at depth 0 and not the list passed in
dump(h, self, cycle, depth, prefix, test, fuel) ==
    IF fuel = 0
    THEN [text |-> <<>>, cycle |-> cycle, exc |-> RecursionError, fresh |-> depth = 0]
    ELSE LET ret == pad(depth) \o head(h, self, prefix, test)
             cyc == IF depth = 0 THEN <<>> ELSE cycle
         IN IF InList(self, cyc)
            THEN [text |-> ret \o <<" _/">>, cycle |-> cyc, exc |-> NoExc,
                  fresh |-> depth = 0]
            ELSE LET r == dumpKids(h, kids(h, self), Append(cyc, self),
                                   depth + 1, test, fuel - 1)
                 IN [text |-> ret \o r.text, cycle |-> r.cycle, exc |-> r.exc,
                     fresh |-> depth = 0]

\* self.dump(test=...) as Object.test and Object.__repr__ call it: cycle is the
\* default list D.  dflt of the outcome is what the default list holds after
\* the call
DumpWith(h, D, self, test) ==
    LET r == dump(h, self, D, 0, <<>>, test, MaxDepth) IN
    [text |-> r.text, exc |-> r.exc, dflt |-> IF r.fresh THEN D ELSE r.cycle]

\* Object.test and Object.__repr__ where the default list is empty
DumpRoot(h, self, test) == DumpWith(h, <<>>, self, test)

(***************************************************************************)
(* Code generation.  gen renders a node into the text of a file; the file  *)
(* (the sink) gives the indentation unit and the comment marker.           *)
(***************************************************************************)
\* File.__init__: what gen reads of a file
File(tab, comment) == [cls |-> "File", tab |-> tab, comment |-> comment]

\* the files of the other classes, with the defaults of their __init__
mkFile == [File("\t", "#") EXCEPT !.cls = "mkFile"]
pyFile == [File("    ", "#") EXCEPT !.cls = "pyFile"]
rsFile == [File("    ", "//") EXCEPT !.cls = "rsFile"]

\* f'{x}': the empty string adds nothing to a text
Piece(x) == IF x = "" THEN <<>> ELSE <<x>>

\* to.tab * depth
Tabs(to, depth) == [i \in 1..depth |-> to.tab]

\* f'{to.tab*depth}{x}\n'
Line(to, depth, x) == Tabs(to, depth) \o x \o <<"\n">>

\* the pfx and the sfx of S.gen and Sec.gen: nothing for None, an empty line
\* for '', else the line indented
Opt(to, depth, x) ==
    IF x = NoneV THEN <<>>
    ELSE IF x.s # "" THEN Line(to, depth, <<x.s>>)
    ELSE <<"\n">>

\* Object.__format__ with an empty spec
Format(h, v) == Piece(FormatValue(h[v.n].value))

\* the class whose gen a node of class c inherits
GenOf(c) ==
    CASE c = "S" -> "S"
      [] c = "Sec" -> "Sec"
      [] c \in {"HTML", "HEAD", "BODY", "DIV", "NAV"} -> "HTML"
      [] c \in {"HTMLI", "SPAN", "TITLE", "SCRIPT"} -> "HTMLI"
      [] c \in {"HTMLS", "META", "LINK", "IMG", "HR"} -> "HTMLS"
      [] c \in {"Fn", "Meth"} -> "Fn"
      [] c = "Class" -> "Class"
      [] OTHER -> "none"

\* ' '.join(items)
RECURSIVE Join(_)
Join(items) ==
    IF items = <<>> THEN <<>>
    ELSE IF Len(items) = 1 THEN items[1]
    ELSE items[1] \o <<" ">> \o Join(Tail(items))

\* the attributes, by descending key
gen_headDown(h, self) ==
    LET ks == keysDown(h, self) IN
    IF ks # <<>>
    THEN <<" ">> \o Join([i \in 1..Len(ks) |->
             <<ks[i].s, "=\"">> \o Format(h, GetItem(h, self, ks[i])) \o <<"\"">>])
    ELSE <<>>

\* HTML.gen_head: args
gen_head(h, self) ==
    LET ks == keys(h, self) IN
    IF ks # <<>>
    THEN <<" ">> \o Join([i \in 1..Len(ks) |->
             <<ks[i].s, "=\"">> \o Format(h, GetItem(h, self, ks[i])) \o <<"\"">>])
    ELSE <<>>

\* what a gen returns: the text, or the exception it raised, and the nodes
\* as the call left them
Text(h, s) == [heap |-> h, text |-> s, exc |-> NoExc]
Fail(h, e) == [heap |-> h, text |-> <<>>, exc |-> e]

\* ret = pre + (what r returned) + post, unless r raised
Around(pre, r, post) ==
    IF r.exc # NoExc THEN r ELSE [r EXCEPT !.text = pre \o @ \o post]

\* sep.join(items), of strings
RECURSIVE SepJoin(_, _)
SepJoin(sep, items) ==
    IF items = <<>> THEN <<>>
    ELSE IF Len(items) = 1 THEN <<items[1]>>
    ELSE <<items[1], sep>> \o SepJoin(sep, Tail(items))

\* the string an f-string of these pieces is, for the declarations of the
\* model
Cat(ps) ==
    CASE ps = <<"fn ", "run", "(", ")", " ", "{">> -> "fn run() {"
      [] ps = <<"def ", "run", "(", ")", ":">> -> "def run():"
      [] ps = <<"fn ", "get", "(", "self", ", ", "k", ")", " -> ", "str", " ", "{">>
             -> "fn get(self, k) -> str {"
      [] ps = <<"def ", "get", "(", "self", ", ", "k", ")", ":">> -> "def get(self, k):"
      [] ps = <<"class ", "A", ":", " pass">> -> "class A: pass"
      [] ps = <<"class ", "K", ":", " pass">> -> "class K: pass"
      [] ps = <<"class ", "K", ":">> -> "class K:"
      [] ps = <<"class ", "K", "(", "A", ")", ":", " pass">> -> "class K(A): pass"
      [] ps = <<"class ", "K", "(", "A", ")", ":">> -> "class K(A):"
      [] OTHER -> "?"

\* for i in self: ret // i
RECURSIVE PushAll(_, _, _)
PushAll(h, ret, items) ==
    IF items = <<>> THEN Return(h, ret)
    ELSE LET r == FloorDiv(h, ret, items[1]) IN
         IF r.exc # NoExc THEN r ELSE PushAll(r.heap, ret, Tail(items))

RECURSIVE gen(_, _, _, _, _, _)
RECURSIVE genKids(_, _, _, _, _, _)
RECURSIVE S_genFlat(_, _, _, _, _, _)
RECURSIVE S_gen(_, _, _, _, _, _)
RECURSIVE Sec_genAlways(_, _, _, _, _)
RECURSIVE Sec_genDeeper(_, _, _, _, _)
RECURSIVE Sec_gen(_, _, _, _, _)
RECURSIVE HTML_gen(_, _, _, _, _, _)
RECURSIVE HTMLI_gen(_, _, _, _, _, _)
RECURSIVE Fn_genBrace(_, _, _, _, _)
RECURSIVE Fn_genAdopt(_, _, _, _, _)
RECURSIVE Fn_genFallback(_, _, _, _, _)
RECURSIVE Fn_gen(_, _, _, _, _)
RECURSIVE Class_gen(_, _, _, _, _)

\* for i in self: ret += i.gen(to, depth) or i.gen(to, depth, inline=True)
genKids(h, ks, to, depth, inline, fuel) ==
    IF ks = <<>> THEN Text(h, <<>>)
    ELSE LET a == gen(h, ks[1], to, depth, inline, fuel) IN
         IF a.exc # NoExc THEN a
         ELSE Around(a.text, genKids(a.heap, Tail(ks), to, depth, inline, fuel), <<>>)

\* an S.gen that renders the children at its own depth
S_genFlat(h, self, to, depth, inline, fuel) ==
    LET n == h[self.n]
        r == genKids(h, n.nest, to, depth, FALSE, fuel)
        m == r.heap[self.n]
    IN
    IF inline THEN Text(h, Piece(FormatValue(n.value)))
    ELSE Around(
           Opt(to, depth, n.pfx)
             \o (IF n.value # NoneV
                 THEN Line(to, depth, Piece(FormatValue(n.value))) ELSE <<>>),
           r,
           (IF m.end # NoneV THEN Line(to, depth, Piece(m.end.s)) ELSE <<>>)
             \o Opt(to, depth, m.sfx))

\* S.gen
S_gen(h, self, to, depth, inline, fuel) ==
    LET n == h[self.n]
        r == genKids(h, n.nest, to, depth + 1, FALSE, fuel)
        m == r.heap[self.n]
    IN
    IF inline THEN Text(h, Piece(FormatValue(n.value)))
    ELSE Around(
           Opt(to, depth, n.pfx)
             \o (IF n.value # NoneV
                 THEN Line(to, depth, Piece(FormatValue(n.value))) ELSE <<>>),
           r,
           (IF m.end # NoneV THEN Line(to, depth, Piece(m.end.s)) ELSE <<>>)
             \o Opt(to, depth, m.sfx))

\* a Sec.gen that does not look whether the section has children
Sec_genAlways(h, self, to, depth, fuel) ==
    LET n == h[self.n]
        r == genKids(h, n.nest, to, depth + 0, FALSE, fuel)
        m == r.heap[self.n]
    IN
    Around(
      Opt(to, depth, n.pfx)
        \o (IF n.value # NoneV
            THEN Line(to, depth, <<to.comment, " \\ ">> \o Piece(FormatValue(n.value)))
            ELSE <<>>),
      r,
      (IF m.value # NoneV
       THEN Line(to, depth, <<to.comment, " / ">> \o Piece(FormatValue(m.value)))
       ELSE <<>>)
        \o Opt(to, depth, m.sfx))

\* a Sec.gen that renders the children one deeper, as S.gen does
Sec_genDeeper(h, self, to, depth, fuel) ==
    LET n == h[self.n]
        r == genKids(h, n.nest, to, depth + 1, FALSE, fuel)
        m == r.heap[self.n]
    IN
    IF n.nest = <<>> THEN Text(h, <<>>)
    ELSE Around(
           Opt(to, depth, n.pfx)
             \o (IF n.value # NoneV
                 THEN Line(to, depth,
                           <<to.comment, " \\ ">> \o Piece(FormatValue(n.value)))
                 ELSE <<>>),
           r,
           (IF m.value # NoneV
            THEN Line(to, depth, <<to.comment, " / ">> \o Piece(FormatValue(m.value)))
            ELSE <<>>)
             \o Opt(to, depth, m.sfx))

\* Sec.gen; it has no inline parameter
Sec_gen(h, self, to, depth, fuel) ==
    LET n == h[self.n]
        r == genKids(h, n.nest, to, depth + 0, FALSE, fuel)
        m == r.heap[self.n]
    IN
    IF n.nest = <<>> THEN Text(h, <<>>)
    ELSE Around(
           Opt(to, depth, n.pfx)
             \o (IF n.value # NoneV
                 THEN Line(to, depth,
                           <<to.comment, " \\ ">> \o Piece(FormatValue(n.value)))
                 ELSE <<>>),
           r,
           (IF m.value # NoneV
            THEN Line(to, depth, <<to.comment, " / ">> \o Piece(FormatValue(m.value)))
            ELSE <<>>)
             \o Opt(to, depth, m.sfx))

\* HTML.gen; inline is accepted and not used
HTML_gen(h, self, to, depth, inline, fuel) ==
    LET v == Piece(FormatValue(h[self.n].value))
        r == genKids(h, h[self.n].nest, to, depth + 1, FALSE, fuel)
    IN
    Around(Line(to, depth, <<"<">> \o v \o gen_head(h, self) \o <<">">>),
           r,
           Line(to, depth, <<"</">> \o Piece(FormatValue(r.heap[self.n].value)) \o <<">">>))

\* HTMLI.gen; inline is accepted and not used, and passed on as True
HTMLI_gen(h, self, to, depth, inline, fuel) ==
    LET v == Piece(FormatValue(h[self.n].value))
        r == genKids(h, h[self.n].nest, to, depth + 1, TRUE, fuel)
    IN
    Around(Tabs(to, depth) \o <<"<">> \o v \o gen_head(h, self) \o <<">">>,
           r,
           <<"</">> \o Piece(FormatValue(r.heap[self.n].value)) \o <<">", "\n">>)

\* HTMLS.gen; inline is accepted and not used
HTMLS_gen(h, self, to, depth, inline) ==
    LET v == Piece(FormatValue(h[self.n].value)) IN
    Text(h, Line(to, depth, <<"<">> \o v \o gen_head(h, self) \o <<">">>))

\* S(V, end, pfx=pfx, sfx=sfx), a node made for one rendering
TempS(V, end, pfx, sfx) ==
    [NewS(Str(V)) EXCEPT !.end = end, !.pfx = pfx, !.sfx = sfx]

\* a Fn.gen that takes every file for a brace-style one
Fn_genBrace(h, self, to, depth, fuel) ==
    LET n == h[self.n]
        args == SepJoin(", ", n.args)
        rets == IF n.ret = NoneV THEN <<" ">> ELSE <<" -> ", n.ret.s, " ">>
        decl == <<"fn ">> \o Format(h, self) \o <<"(">> \o args \o <<")">> \o rets \o <<"{">>
        b == PushAll(Append(h, TempS(Cat(decl), Str("}"), n.pfx, n.sfx)),
                     Ref(Len(h) + 1), n.nest)
    IN gen(b.heap, b.ret, to, depth, FALSE, fuel)

\* a Fn.gen that renders and then keeps what it rendered from as a child
Fn_genAdopt(h, self, to, depth, fuel) ==
    LET n == h[self.n]
        args == SepJoin(", ", n.args)
        rets == IF n.ret = NoneV THEN <<" ">> ELSE <<" -> ", n.ret.s, " ">>
        brace == <<"fn ">> \o Format(h, self) \o <<"(">> \o args \o <<")">> \o rets \o <<"{">>
        colon == <<"def ">> \o Format(h, self) \o <<"(">> \o args \o <<")", ":">>
        tmp == IF to.cls = "rsFile" THEN TempS(Cat(brace), Str("}"), n.pfx, n.sfx)
               ELSE TempS(Cat(colon), NoneV, n.pfx, n.sfx)
        b == PushAll(Append(h, tmp), Ref(Len(h) + 1), n.nest)
        r == gen(b.heap, b.ret, to, depth, FALSE, fuel)
    IN IF to.cls \notin {"rsFile", "pyFile"}
       THEN Fail(h, TypeError("gen", to.cls, NoneV))
       ELSE [r EXCEPT !.heap = FloorDiv(@, self, b.ret).heap]

\* a Fn.gen that takes every file it does not know for a Python file
Fn_genFallback(h, self, to, depth, fuel) ==
    LET n == h[self.n]
        args == SepJoin(", ", n.args)
        rets == IF n.ret = NoneV THEN <<" ">> ELSE <<" -> ", n.ret.s, " ">>
        brace == <<"fn ">> \o Format(h, self) \o <<"(">> \o args \o <<")">> \o rets \o <<"{">>
        colon == <<"def ">> \o Format(h, self) \o <<"(">> \o args \o <<")", ":">>
        tmp == IF to.cls = "rsFile" THEN TempS(Cat(brace), Str("}"), n.pfx, n.sfx)
               ELSE TempS(Cat(colon), NoneV, n.pfx, n.sfx)
        b == PushAll(Append(h, tmp), Ref(Len(h) + 1), n.nest)
    IN gen(b.heap, b.ret, to, depth, FALSE, fuel)

\* Fn.gen, of Fn and Meth; it has no inline parameter
Fn_gen(h, self, to, depth, fuel) ==
    LET n == h[self.n]
        args == SepJoin(", ", n.args)
        rets == IF n.ret = NoneV THEN <<" ">> ELSE <<" -> ", n.ret.s, " ">>
        brace == <<"fn ">> \o Format(h, self) \o <<"(">> \o args \o <<")">> \o rets \o <<"{">>
        colon == <<"def ">> \o Format(h, self) \o <<"(">> \o args \o <<")", ":">>
        tmp == IF to.cls = "rsFile" THEN TempS(Cat(brace), Str("}"), n.pfx, n.sfx)
               ELSE TempS(Cat(colon), NoneV, n.pfx, n.sfx)
        b == PushAll(Append(h, tmp), Ref(Len(h) + 1), n.nest)
    IN IF to.cls \notin {"rsFile", "pyFile"}
       THEN Fail(h, TypeError("gen", to.cls, NoneV))
       ELSE gen(b.heap, b.ret, to, depth, FALSE, fuel)

\* Class.gen; it has no inline parameter and does not look at the file
Class_gen(h, self, to, depth, fuel) ==
    LET n == h[self.n]
        sups == IF n.sup # <<>>
                THEN <<"(">> \o SepJoin(", ", [i \in 1..Len(n.sup) |->
                                                 FormatValue(h[n.sup[i].n].value)])
                            \o <<")">>
                ELSE <<>>
        pas == IF n.nest # <<>> THEN <<>> ELSE <<" pass">>
        decl == <<"class ">> \o Piece(FormatValue(n.value)) \o sups \o <<":">> \o pas
        b == PushAll(Append(h, TempS(Cat(decl), NoneV, n.pfx, NoneV)),
                     Ref(Len(h) + 1), n.nest)
    IN gen(b.heap, b.ret, to, depth, FALSE, fuel)

\* self.gen(to, depth) and self.gen(to, depth, inline=True): the method of the
\* class of self; inline tells that the keyword was passed, fuel is the number
\* of frames left on the stack
gen(h, self, to, depth, inline, fuel) ==
    LET g == GenOf(h[self.n].cls) IN
    IF fuel = 0 THEN Fail(h, RecursionError)
    ELSE CASE g = "S" -> S_gen(h, self, to, depth, inline, fuel - 1)
           [] g = "Sec" ->
                  IF inline THEN Fail(h, TypeError("gen", "inline", NoneV))
                  ELSE Sec_gen(h, self, to, depth, fuel - 1)
           [] g = "HTML" -> HTML_gen(h, self, to, depth, inline, fuel - 1)
           [] g = "HTMLI" -> HTMLI_gen(h, self, to, depth, inline, fuel - 1)
           [] g = "HTMLS" -> HTMLS_gen(h, self, to, depth, inline)
           [] g = "Fn" ->
                  IF inline THEN Fail(h, TypeError("gen", "inline", NoneV))
                  ELSE Fn_gen(h, self, to, depth, fuel - 1)
           [] g = "Class" ->
                  IF inline THEN Fail(h, TypeError("gen", "inline", NoneV))
                  ELSE Class_gen(h, self, to, depth, fuel - 1)
           [] OTHER -> Fail(h, AttributeError)

\* self[j] = kw[i] for i in kw, of HTML.__init__
RECURSIVE HTML_kw(_, _, _)
HTML_kw(h, self, kw) ==
    IF kw = <<>> THEN Return(h, self)
    ELSE LET j == IF kw[1].key = "clazz" THEN "class" ELSE kw[1].key
             r == SetItem(h, self, Str(j), kw[1].val)
         IN IF r.exc # NoExc THEN r ELSE HTML_kw(r.heap, self, Tail(kw))

\* HTML.__init__ of class c: the value is the tag
NewHTML(c) == Object(c, Str(LowerName(c)))

\* c(**kw) for a class c of HTML
HTML_init(h, c, kw) == HTML_kw(Append(h, NewHTML(c)), Ref(Len(h) + 1), kw)

(***************************************************************************)
(* The program: a sequence of algebra calls on the nodes of a small graph. *)
(***************************************************************************)
NoCall ==
    [op |-> "init", self |-> NoneV, key |-> NoneV, that |-> NoneV,
     idx |-> NoneV, num |-> NoneV, where |-> NoneV, ret |-> NoneV, exc |-> NoExc]

NoChain == [recv |-> NoneV, base |-> <<>>, vals |-> <<>>]

\* no file on the disk
NoDisk == [f \in {} |-> <<>>]

\* no traversal made since the last call
NoOut ==
    [op |-> "none", root |-> NoneV, to |-> NoneV, depth |-> 0, test |-> FALSE,
     text |-> <<>>, exc |-> NoExc]

\* a graph after construction: A = Object('A') // B // C // B with A['k'] = B,
\* where B = S('x') and C = S()
Graph1 ==
    << [Object("Object", Str("A")) EXCEPT
            !.nest = <<Ref(2), Ref(3), Ref(2)>>,
            !.slot = SlotPut(EmptySlot, Str("k"), Ref(2))],
       NewS(Str("x")),
       NewS(NoneV) >>

\* three nodes just constructed: A = Object('A'), B = S('x'), C = S()
Graph2 == << Object("Object", Str("A")), NewS(Str("x")), NewS(NoneV) >>

\* a graph with a cycle: A = Vector() // A // B with A << C
Graph3 ==
    << [Object("Vector", Str("")) EXCEPT
            !.nest = <<Ref(1), Ref(2)>>,
            !.slot = SlotPut(EmptySlot, Str("s"), Ref(3))],
       NewS(Str("x")),
       NewS(NoneV) >>

InitHeaps == {Graph1, Graph2, Graph3}

Nodes(h) == {Ref(i) : i \in 1..Len(h)}

\* the receiver of the calls: A
Receivers == {Ref(1)}

\* the values a call is given: nodes, a raw string, and a value box rejects
Vals == {Ref(1), Ref(2), Ref(3), Str("x"), IntV(7)}

\* the values ins, before and after are given to insert
InsVals == {Ref(3), Str("x"), IntV(7)}

\* the keys a call is given
Keys == {Str("k"), IntV(0)}

\* the indexes ins is given: inside [0, len], negative, past the end, not an int
Idxs ==
    {IntV(0), IntV(1), IntV(2), IntV(0 - 1), IntV(0 - (MaxNest + 1)),
     IntV(MaxNest + 1), Str("1")}

\* the indexes drop is given: the default -1, the one of Django.mk, and the head
DropIdxs == {0 - 1, 0 - 2, 0}

\* the counts drop is given: below, at and above the length of the nest
Nums(h, self) == {1, 2, Len(h[self.n].nest), Len(h[self.n].nest) + 1}

\* the anchors before and after are given
Anchors == {Ref(1), Ref(2), Str("x")}

Fits(h) == \A i \in 1..Len(h) : Len(h[i].nest) <= MaxNest

Call(r, c) ==
    /\ steps < MaxSteps
    /\ Fits(r.heap)
    /\ heap' = r.heap
    /\ old' = heap
    /\ last' = [c EXCEPT !.ret = r.ret, !.exc = r.exc]
    /\ prev' = last
    /\ steps' = steps + 1
    /\ out' = NoOut
    /\ UNCHANGED <<cycleDefault, disk>>

Stmt(op, self) == [NoCall EXCEPT !.op = op, !.self = self]

DoBox ==
    \E self \in Receivers, that \in Vals :
        /\ Call(Box(heap, that), [Stmt("box", self) EXCEPT !.that = that])
        /\ chain' = NoChain

DoSetItem ==
    \E self \in Receivers, key \in Keys, that \in Vals :
        /\ Call(SetItem(heap, self, key, that),
                [Stmt("setitem", self) EXCEPT !.key = key, !.that = that])
        /\ chain' = NoChain

DoLShift ==
    \E self \in Receivers, that \in Vals :
        /\ Call(LShift(heap, self, that), [Stmt("lshift", self) EXCEPT !.that = that])
        /\ chain' = NoChain

DoRShift ==
    \E self \in Receivers, that \in Vals :
        /\ Call(RShift(heap, self, that), [Stmt("rshift", self) EXCEPT !.that = that])
        /\ chain' = NoChain

\* what a push that continues the fluent expression is applied to: the value the
\* previous push returned
Fluent ==
    IF last.op = "floordiv" /\ last.exc = NoExc /\ IsNode(last.ret)
    THEN {last.ret} ELSE {}

\* A // v; when the receiver is what the previous push returned, the call
\* continues the fluent expression A // v1 // ... // vn
DoFloorDiv ==
    \E self \in Receivers \cup Fluent, that \in Vals :
        LET r == FloorDiv(heap, self, that)
            continues == self \in Fluent
        IN /\ Call(r, [Stmt("floordiv", self) EXCEPT !.that = that])
           /\ chain' = IF r.exc # NoExc THEN NoChain
                       ELSE IF continues
                            THEN [chain EXCEPT !.vals = Append(@, that)]
                            ELSE [recv |-> self, base |-> heap[self.n].nest,
                                  vals |-> <<that>>]

DoIns ==
    \E self \in Receivers, idx \in Idxs, that \in InsVals :
        /\ Call(Ins(heap, self, idx, that),
                [Stmt("ins", self) EXCEPT !.idx = idx, !.that = that])
        /\ chain' = NoChain

DoRemove ==
    \E self \in Receivers, that \in Vals :
        /\ Call(Remove(heap, self, that), [Stmt("remove", self) EXCEPT !.that = that])
        /\ chain' = NoChain

DoBefore ==
    \E self \in Receivers, where \in Anchors, that \in InsVals :
        /\ Call(Before(heap, self, where, that),
                [Stmt("before", self) EXCEPT !.where = where, !.that = that])
        /\ chain' = NoChain

DoAfter ==
    \E self \in Receivers, where \in Anchors, that \in InsVals :
        /\ Call(After(heap, self, where, that),
                [Stmt("after", self) EXCEPT !.where = where, !.that = that])
        /\ chain' = NoChain

DoDropAll ==
    \E self \in Receivers :
        /\ Call(DropAll(heap, self), Stmt("dropall", self))
        /\ chain' = NoChain

DoDrop ==
    \E self \in Receivers, idx \in DropIdxs :
      \E num \in Nums(heap, self) :
        /\ Call(Drop(heap, self, idx, num),
                [Stmt("drop", self) EXCEPT !.idx = IntV(idx), !.num = IntV(num)])
        /\ chain' = NoChain

Init ==
    /\ heap \in InitHeaps
    /\ old = heap
    /\ last = NoCall
    /\ prev = NoCall
    /\ chain = NoChain
    /\ steps = 0
    /\ out = NoOut
    /\ cycleDefault = <<>>
    /\ disk = NoDisk

Next ==
    \/ DoBox
    \/ DoSetItem
    \/ DoLShift
    \/ DoRShift
    \/ DoFloorDiv
    \/ DoIns
    \/ DoRemove
    \/ DoBefore
    \/ DoAfter
    \/ DoDropAll
    \/ DoDrop

Spec == Init /\ [][Next]_vars

(***************************************************************************)
(* The program that builds a graph and dumps it.                           *)
(***************************************************************************)
\* the arguments of the calls that build the graph
DumpParents == {Ref(1), Ref(2)}
DumpKeys == {Str("b"), Str("a")}
DumpVals == {Ref(1), Ref(3), Str("x")}

\* no traversal was made yet
Building == out.op = "none"

BuildSetItem ==
    \E self \in Receivers, key \in DumpKeys, that \in DumpVals :
        /\ Building
        /\ Call(SetItem(heap, self, key, that),
                [Stmt("setitem", self) EXCEPT !.key = key, !.that = that])
        /\ chain' = NoChain

BuildPush ==
    \E self \in DumpParents, that \in DumpVals :
        /\ Building
        /\ Call(FloorDiv(heap, self, that), [Stmt("floordiv", self) EXCEPT !.that = that])
        /\ chain' = NoChain

\* X.test() and repr(X)
DoDump ==
    \E root \in Nodes(heap), test \in BOOLEAN :
        LET r == DumpWith(heap, cycleDefault, root, test) IN
        /\ Building
        /\ out' = [NoOut EXCEPT !.op = "dump", !.root = root, !.test = test,
                                !.text = r.text, !.exc = r.exc]
        /\ cycleDefault' = r.dflt
        /\ UNCHANGED <<heap, old, last, prev, chain, steps, disk>>

\* a second X.test() or repr(X), after A.test(), on the graph as it is
DumpAgain ==
    \E root \in Nodes(heap), test \in BOOLEAN :
        LET r == DumpWith(heap, cycleDefault, root, test) IN
        /\ out.op = "dump" /\ out.root \in Receivers /\ out.test
        /\ last.op # "dump"
        /\ out' = [NoOut EXCEPT !.op = "dump", !.root = root, !.test = test,
                                !.text = r.text, !.exc = r.exc]
        /\ cycleDefault' = r.dflt
        /\ prev' = last
        /\ last' = Stmt("dump", out.root)
        /\ UNCHANGED <<heap, old, chain, steps, disk>>

NextDump ==
    \/ BuildSetItem
    \/ BuildPush
    \/ DoDump
    \/ DumpAgain

SpecDump == Init /\ [][NextDump]_vars

(***************************************************************************)
(* The program that builds a tree of text, section and markup nodes and    *)
(* renders it.                                                             *)
(***************************************************************************)
\* the nodes before the calls, for a choice f of end, pfx and sfx:
\*   1 = S('a', f, f, f) // 6 with [1]['k'] = 6      2 = Sec('s', f, f, f)
\*   3 = DIV() // 1        4 = SPAN()                5 = META() // 6
\*   6 = S('b')            7 = Sec('t')
GenGraph(f) ==
    << [NewS(Str("a")) EXCEPT !.end = f, !.pfx = f, !.sfx = f,
            !.nest = <<Ref(6)>>, !.slot = SlotPut(EmptySlot, Str("k"), Ref(6))],
       [Object("Sec", Str("s")) EXCEPT !.end = f, !.pfx = f, !.sfx = f],
       [NewHTML("DIV") EXCEPT !.nest = <<Ref(1)>>],
       NewHTML("SPAN"),
       [NewHTML("META") EXCEPT !.nest = <<Ref(6)>>],
       NewS(Str("b")),
       Object("Sec", Str("t")) >>

\* end, pfx and sfx: left out, empty, a text
Affixes == {NoneV, Str(""), Str("p")}

GenHeaps == {GenGraph(f) : f \in Affixes}

\* the files rendered to: File(V) with its defaults, and one with a tab and //
Sinks == {File("    ", "#"), File("\t", "//")}

\* the depths the rendering starts at
Depths == {0, 1}

\* the receivers and the arguments of the calls that build the tree
GenParents == {Ref(1), Ref(2), Ref(4)}
GenVals == {Ref(1), Ref(3), Ref(6), Ref(7)}

\* the keyword arguments of a markup element
Kws ==
    { <<>>,
      <<[key |-> "id", val |-> Str("x")], [key |-> "clazz", val |-> Str("y")]>>,
      <<[key |-> "clazz", val |-> Str("y")], [key |-> "id", val |-> Str("x")]>> }

\* the classes of the markup elements made: a block and an inline one
MarkupClasses == {"DIV", "SPAN"}

\* the nodes rendered: all but the leaves
GenRoots(h) == {v \in Nodes(h) : h[v.n].cls # "S" \/ h[v.n].nest # <<>>}

GenPush ==
    \E self \in GenParents, that \in GenVals :
        /\ Building
        /\ Call(FloorDiv(heap, self, that), [Stmt("floordiv", self) EXCEPT !.that = that])
        /\ chain' = NoChain

GenHTML ==
    \E c \in MarkupClasses, kw \in Kws :
        /\ Building
        /\ Call(HTML_init(heap, c, kw), Stmt("html", NoneV))
        /\ chain' = NoChain

DoGen ==
    \E root \in GenRoots(heap), to \in Sinks, depth \in Depths :
        LET r == gen(heap, root, to, depth, FALSE, MaxDepth) IN
        /\ Building
        /\ out' = [NoOut EXCEPT !.op = "gen", !.root = root, !.to = to,
                                !.depth = depth, !.text = r.text, !.exc = r.exc]
        /\ heap' = r.heap
        /\ UNCHANGED <<old, last, prev, chain, steps, cycleDefault, disk>>

InitGen ==
    /\ heap \in GenHeaps
    /\ old = heap
    /\ last = NoCall
    /\ prev = NoCall
    /\ chain = NoChain
    /\ steps = 0
    /\ out = NoOut
    /\ cycleDefault = <<>>
    /\ disk = NoDisk

NextGen ==
    \/ GenPush
    \/ GenHTML
    \/ DoGen

SpecGen == InitGen /\ [][NextGen]_vars

(***************************************************************************)
(* The program that builds a tree with declarations in it and renders it    *)
(* to the source files of two languages and to a Makefile.                  *)
(***************************************************************************)
\* Fn(V), Meth(V, args, ret, pfx, sfx) and Class(C, sup)
NewFn(V) == Object("Fn", V)
NewMeth(V, args, ret, pfx, sfx) ==
    [Object("Meth", V) EXCEPT !.args = <<"self">> \o args, !.ret = ret,
                              !.pfx = pfx, !.sfx = sfx]
NewClass(C, sup) == [Object("Class", C) EXCEPT !.sup = sup]

\* the tree after construction:
\*   1 = Fn('run')              2 = Meth('get', ['k'], 'str', pfx='p', sfx='')
\*   3 = Class('K', sup) // 2   4 = S('a')       5 = Sec('s', 'e') // 6
\*   6 = Sec() // 10            7 = META()       8 = SPAN()
\*   9 = Class('A')            10 = S('b')      11 = DIV() // 3
DeclGraph(sup) ==
    << NewFn(Str("run")),
       NewMeth(Str("get"), <<"k">>, Str("str"), Str("p"), Str("")),
       [NewClass(Str("K"), sup) EXCEPT !.nest = <<Ref(2)>>],
       NewS(Str("a")),
       [Object("Sec", Str("s")) EXCEPT !.end = Str("e"), !.nest = <<Ref(6)>>],
       [Object("Sec", NoneV) EXCEPT !.nest = <<Ref(10)>>],
       NewHTML("META"),
       NewHTML("SPAN"),
       NewClass(Str("A"), <<>>),
       NewS(Str("b")),
       [NewHTML("DIV") EXCEPT !.nest = <<Ref(3)>>] >>

DeclHeaps == {DeclGraph(sup) : sup \in {<<>>, <<Ref(9)>>}}

\* the files rendered to: a Rust source, a Python source and a Makefile
DeclSinks == {rsFile, pyFile, mkFile}

\* the receivers and the arguments of the calls that build the tree
DeclParents == {Ref(1), Ref(4), Ref(7), Ref(8)}
DeclVals == {Ref(1), Ref(4), Ref(5)}

\* the nodes whose rendering is asked for
DeclRoots == {Ref(1), Ref(4), Ref(5), Ref(6), Ref(7), Ref(8), Ref(9), Ref(11)}

DeclPush ==
    \E self \in DeclParents, that \in DeclVals :
        /\ Building
        /\ Call(FloorDiv(heap, self, that), [Stmt("floordiv", self) EXCEPT !.that = that])
        /\ chain' = NoChain

\* root.gen(to, depth), the first rendering of the tree
DeclGen ==
    \E root \in DeclRoots, to \in DeclSinks, depth \in Depths :
        LET r == gen(heap, root, to, depth, FALSE, MaxDepth) IN
        /\ Building
        /\ out' = [NoOut EXCEPT !.op = "gen", !.root = root, !.to = to,
                                !.depth = depth, !.text = r.text, !.exc = r.exc]
        /\ heap' = r.heap
        /\ old' = heap
        /\ UNCHANGED <<last, prev, chain, steps, cycleDefault, disk>>

\* root.gen(to, depth) of the tree just rendered, to a file of any kind
DeclGenAgain ==
    \E to \in DeclSinks :
        LET r == gen(heap, out.root, to, out.depth, FALSE, MaxDepth) IN
        /\ out.op = "gen"
        /\ out.depth = 0
        /\ last.op # "gen"
        /\ out' = [out EXCEPT !.to = to, !.text = r.text, !.exc = r.exc]
        /\ heap' = r.heap
        /\ prev' = last
        /\ last' = [Stmt("gen", out.root) EXCEPT !.that = out.to]
        /\ UNCHANGED <<old, chain, steps, cycleDefault, disk>>

\* root.dump() and root.test()
DeclDump ==
    \E root \in DeclRoots, test \in BOOLEAN :
        LET r == DumpWith(heap, cycleDefault, root, test) IN
        /\ Building
        /\ out' = [NoOut EXCEPT !.op = "dump", !.root = root, !.test = test,
                                !.text = r.text, !.exc = r.exc]
        /\ cycleDefault' = r.dflt
        /\ old' = heap
        /\ UNCHANGED <<heap, last, prev, chain, steps, disk>>

InitDecl ==
    /\ heap \in DeclHeaps
    /\ old = heap
    /\ last = NoCall
    /\ prev = NoCall
    /\ chain = NoChain
    /\ steps = 0
    /\ out = NoOut
    /\ cycleDefault = <<>>
    /\ disk = NoDisk

NextDecl ==
    \/ DeclPush
    \/ DeclGen
    \/ DeclGenAgain
    \/ DeclDump

SpecDecl == InitDecl /\ [][NextDecl]_vars

(***************************************************************************)
(* Directories and files.  A path is the sequence of the names that the    *)
(* string has between its slashes; the disk maps the paths there are to a  *)
(* directory or to the text of a file.                                     *)
(***************************************************************************)
\* isinstance(that, IO)
IsIO(h, that) ==
    that.t = "ref" /\ h[that.n].cls \in {"IO", "Dir", "File", "mkFile", "pyFile", "rsFile"}

\* Dir(V)
NewDir(V) == [Object("Dir", Str(V)) EXCEPT !.path = <<V>>]

\* File(V), with the sections top and bot that its __init__ makes
NewFile(V, top, bot) ==
    [Object("File", Str(V)) EXCEPT !.path = <<V>>, !.top = top, !.bot = bot]

\* the file node as the to of a gen: its tab and its comment
SinkOf(n) ==
    CASE n.cls = "rsFile" -> rsFile
      [] n.cls = "pyFile" -> pyFile
      [] n.cls = "mkFile" -> mkFile
      [] OTHER -> File("    ", "#")

\* Dir.__floordiv__
Dir_floordiv(h, self, that) ==
    IF ~IsIO(h, that) THEN Raise(h, AssertionError)
    ELSE FloorDiv([h EXCEPT ![that.n].path = h[self.n].path \o @], self, that)

ADir == [dir |-> TRUE, text |-> <<>>]
AFile(s) == [dir |-> FALSE, text |-> s]

\* the disk with x at path p
Put(d, p, x) == [q \in DOMAIN d \cup {p} |-> IF q = p THEN x ELSE d[q]]

\* the path of the directory that path p is in; none for a name alone
Parent(p) == SubSeq(p, 1, Len(p) - 1)

\* why path p cannot be made on disk d, if it cannot
NoWay(d, p) ==
    IF Len(p) = 1 THEN NoExc
    ELSE IF Parent(p) \notin DOMAIN d THEN FileNotFoundError
    ELSE IF ~d[Parent(p)].dir THEN NotADirectoryError
    ELSE NoExc

\* try: os.mkdir(path) except FileExistsError: pass
mkdir(d, p) ==
    IF p \in DOMAIN d THEN [disk |-> d, exc |-> NoExc]
    ELSE IF NoWay(d, p) # NoExc THEN [disk |-> d, exc |-> NoWay(d, p)]
    ELSE [disk |-> Put(d, p, ADir), exc |-> NoExc]

\* open(path, 'w'): the file is there and empty at once
open(d, p) ==
    IF p \in DOMAIN d /\ d[p].dir THEN [disk |-> d, exc |-> IsADirectoryError]
    ELSE IF NoWay(d, p) # NoExc THEN [disk |-> d, exc |-> NoWay(d, p)]
    ELSE [disk |-> Put(d, p, AFile(<<>>)), exc |-> NoExc]

\* F.write(i.gen(self)) for top, for every i of self and for bot, in this
\* order; what was written stays in the file when a later gen raises
RECURSIVE WriteAll(_, _, _, _, _)
WriteAll(h, items, to, d, p) ==
    IF items = <<>> THEN [heap |-> h, disk |-> d, exc |-> NoExc]
    ELSE LET r == gen(h, items[1], to, 0, FALSE, MaxDepth) IN
         IF r.exc # NoExc THEN [heap |-> r.heap, disk |-> d, exc |-> r.exc]
         ELSE WriteAll(r.heap, Tail(items), to,
                       Put(d, p, AFile(d[p].text \o r.text)), p)

\* File.sync
File_sync(h, self, d) ==
    LET n == h[self.n]
        o == open(d, n.path)
    IN IF o.exc # NoExc THEN [heap |-> h, disk |-> d, exc |-> o.exc]
       ELSE WriteAll(h, <<n.top>> \o n.nest \o <<n.bot>>, SinkOf(n), o.disk, n.path)

RECURSIVE sync(_, _, _, _)
RECURSIVE syncAll(_, _, _, _)

\* Dir.sync
Dir_sync(h, self, d, fuel) ==
    LET m == mkdir(d, h[self.n].path) IN
    IF m.exc # NoExc THEN [heap |-> h, disk |-> d, exc |-> m.exc]
    ELSE syncAll(h, h[self.n].nest, m.disk, fuel)

\* for i in self: i.sync()
syncAll(h, items, d, fuel) ==
    IF items = <<>> THEN [heap |-> h, disk |-> d, exc |-> NoExc]
    ELSE LET r == sync(h, items[1], d, fuel) IN
         IF r.exc # NoExc THEN r ELSE syncAll(r.heap, Tail(items), r.disk, fuel)

\* self.sync(): the method of the class of self; fuel is the number of frames
\* left on the stack
sync(h, self, d, fuel) ==
    IF fuel = 0 THEN [heap |-> h, disk |-> d, exc |-> RecursionError]
    ELSE IF h[self.n].cls = "Dir" THEN Dir_sync(h, self, d, fuel - 1)
    ELSE File_sync(h, self, d)

(***************************************************************************)
(* The program that builds a tree of directories with a file in it, fills  *)
(* the file and writes the tree to the disk.                               *)
(***************************************************************************)
\* the nodes after construction:
\*   1 = Dir('a')    2 = Dir('b')    3 = File('c'), top = 4, bot = 5
\*   4 = Sec()       5 = Sec()       6 = S('x')     7 = Fn('run')
IOGraph ==
    << NewDir("a"), NewDir("b"), NewFile("c", Ref(4), Ref(5)),
       Object("Sec", NoneV), Object("Sec", NoneV),
       NewS(Str("x")), NewFn(Str("run")) >>

\* the file of the program
TheFile == Ref(3)

\* the receivers and the arguments of the calls
IODirs == {Ref(1), Ref(2)}
IOKids == {Ref(2), Ref(3), Ref(6)}
IOLines == {Ref(6), Ref(7)}
SyncRoots == {Ref(1), Ref(2), Ref(3)}

\* dir // that
IOPush ==
    \E self \in IODirs, that \in IOKids :
        /\ Call(Dir_floordiv(heap, self, that), [Stmt("floordiv", self) EXCEPT !.that = that])
        /\ chain' = NoChain

\* file // that
IOFill ==
    \E that \in IOLines :
        /\ Call(FloorDiv(heap, TheFile, that), [Stmt("floordiv", TheFile) EXCEPT !.that = that])
        /\ chain' = NoChain

\* root.sync(); out keeps whether the file was there before, and its text
IOSync ==
    \E root \in SyncRoots :
        LET r == sync(heap, root, disk, MaxDepth)
            p == heap[TheFile.n].path
            was == p \in DOMAIN disk
        IN
        /\ Building
        /\ heap' = r.heap
        /\ disk' = r.disk
        /\ old' = heap
        /\ prev' = last
        /\ last' = [Stmt("sync", root) EXCEPT !.exc = r.exc]
        /\ out' = [NoOut EXCEPT !.op = "sync", !.root = root, !.test = was,
                                !.text = IF was THEN disk[p].text ELSE <<>>]
        /\ UNCHANGED <<chain, steps, cycleDefault>>

InitIO ==
    /\ heap = IOGraph
    /\ old = heap
    /\ last = NoCall
    /\ prev = NoCall
    /\ chain = NoChain
    /\ steps = 0
    /\ out = NoOut
    /\ cycleDefault = <<>>
    /\ disk = NoDisk

NextIO ==
    \/ IOPush
    \/ IOFill
    \/ IOSync

SpecIO == InitIO /\ [][NextIO]_vars

(***************************************************************************)
(* What the claims speak of.                                               *)
(***************************************************************************)
Returned == last.exc = NoExc
Raised == last.exc # NoExc

\* the receiver of the last call, before and after it
Self == heap[last.self.n]
OldSelf == old[last.self.n]

\* v is a node of heap h
NodeOf(h, v) == IsNode(v) /\ v.n \in 1..Len(h)

\* the nodes the program constructed itself
Built == Nodes(Graph1)

\* v is a node made by the last call
Fresh(v) == IsNode(v) /\ v.n \in (Len(old) + 1)..Len(heap)

\* v is a leaf S node of value s
LeafS(v, s) ==
    /\ NodeOf(heap, v)
    /\ heap[v.n].cls = "S"
    /\ heap[v.n].value = s
    /\ DOMAIN heap[v.n].slot = {}
    /\ heap[v.n].nest = <<>>

\* c is what the argument v is coerced to by the last call
Coerced(c, v) ==
    IF IsNode(v) THEN c = v ELSE IsStr(v) /\ Fresh(c) /\ LeafS(c, v)

\* C1: after any sequence of algebra calls, those that raise included, every
\* key of every slot map is a string and every slot value and every element of
\* every nest is a node
C1_TypedTree ==
    \A i \in 1..Len(heap) :
        /\ \A k \in DOMAIN heap[i].slot :
               IsStr(k) /\ NodeOf(heap, heap[i].slot[k])
        /\ \A j \in 1..Len(heap[i].nest) : NodeOf(heap, heap[i].nest[j])

\* a call raised after an earlier call put a boxed raw string in the nest
C1_Witness ==
    /\ Raised
    /\ prev.exc = NoExc /\ IsStr(prev.that)
    /\ \E j \in 1..Len(heap[1].nest) : heap[1].nest[j] \notin Built

\* C2: box returns a node as it is (so boxing twice is boxing once), wraps a
\* string in a fresh leaf S node of that value, and raises a TypeError carrying
\* the value and its type for anything else
C2_Box ==
    last.op = "box" =>
        /\ IsNode(last.that) =>
               /\ Returned /\ last.ret = last.that /\ heap = old
               /\ Box(heap, last.ret) = Return(heap, last.ret)
        /\ IsStr(last.that) =>
               /\ Returned
               /\ Fresh(last.ret) /\ LeafS(last.ret, last.that)
               /\ SubSeq(heap, 1, Len(old)) = old
        /\ (~IsNode(last.that) /\ ~IsStr(last.that)) =>
               /\ Raised
               /\ last.exc.kind = "TypeError"
               /\ last.exc.value = last.that
               /\ (last.that = IntV(7) => last.exc.type = "int")
               /\ heap = old

\* box was given a node, then a string
C2_Witness ==
    /\ prev.op = "box" /\ IsNode(prev.that)
    /\ last.op = "box" /\ IsStr(last.that) /\ Returned

\* box was given an integer
C2_WitnessRaise == last.op = "box" /\ last.that = IntV(7) /\ Raised

ChildOps == {"setitem", "lshift", "rshift", "floordiv", "ins", "before", "after"}

\* the receiver's slot map and nest are what they were before the call
SelfUnchanged == Self.slot = OldSelf.slot /\ Self.nest = OldSelf.nest

\* C3 as claimed: A[key] = value raises exactly when key is not a string, and
\* a child-accepting call that raises a TypeError leaves the receiver's slot
\* map and nest as they were
C3_Original ==
    /\ last.op = "setitem" => (Raised <=> ~IsStr(last.key))
    /\ (last.op \in ChildOps /\ last.exc.kind = "TypeError") => SelfUnchanged

\* C3 as amended: A[key] = value raises exactly when key is not a string or
\* value is neither a node nor a string, and a child-accepting call that raises
\* a TypeError leaves the receiver's slot map and nest as they were
C3_SetItemFails ==
    /\ last.op = "setitem" =>
           (Raised <=> (~IsStr(last.key) \/ ~(IsNode(last.that) \/ IsStr(last.that))))
    /\ (last.op \in ChildOps /\ last.exc.kind = "TypeError") => SelfUnchanged

\* A[0] = 'x' raised on the key, after the value was boxed
C3_Witness ==
    /\ last.op = "setitem" /\ last.key = IntV(0) /\ last.that = Str("x")
    /\ last.exc.kind = "TypeError" /\ last.exc.where = "__setitem__"
    /\ DOMAIN OldSelf.slot # {}

\* C4: after A[k] = a and then A[k] = b, A[k] is b, and the slot map has as
\* many entries as after the first assignment
C4_Overwrite ==
    ( /\ prev.op = "setitem" /\ prev.exc = NoExc
      /\ last.op = "setitem" /\ Returned
      /\ prev.self = last.self /\ prev.key = last.key ) =>
        /\ last.key \in DOMAIN Self.slot
        /\ Coerced(GetItem(heap, last.self, last.key), last.that)
        /\ DOMAIN Self.slot = DOMAIN OldSelf.slot
        /\ Cardinality(DOMAIN Self.slot) = Cardinality(DOMAIN OldSelf.slot)
        /\ \A k \in DOMAIN Self.slot \ {last.key} : Self.slot[k] = OldSelf.slot[k]

\* A['k'] = B and then A['k'] = C, B and C distinct nodes
C4_Witness ==
    /\ prev.op = "setitem" /\ prev.exc = NoExc /\ prev.key = Str("k")
    /\ last.op = "setitem" /\ Returned /\ last.key = Str("k")
    /\ IsNode(prev.that) /\ IsNode(last.that) /\ prev.that # last.that
    /\ GetItem(old, last.self, Str("k")) = prev.that

\* C5: every push returns its receiver, and after A // v1 // ... // vn the nest
\* of A is what it was, followed by the coerced v1, ..., vn in that order
C5_PushOrder ==
    (last.op = "floordiv" /\ Returned) =>
        /\ last.ret = last.self
        /\ chain.recv = last.self
        /\ Len(chain.vals) >= 1
        /\ chain.vals[Len(chain.vals)] = last.that
        /\ Len(Self.nest) = Len(chain.base) + Len(chain.vals)
        /\ SubSeq(Self.nest, 1, Len(chain.base)) = chain.base
        /\ \A i \in 1..Len(chain.vals) :
               LET c == Self.nest[Len(chain.base) + i]
                   v == chain.vals[i]
               IN IF IsNode(v) THEN c = v
                  ELSE IsStr(v) /\ LeafS(c, v) /\ c \notin Built

\* A // B // B on a nest that was not empty
C5_Witness ==
    /\ last.op = "floordiv" /\ Returned
    /\ Len(chain.vals) = 2 /\ chain.base # <<>>
    /\ chain.vals[1] = chain.vals[2]

\* heap h once its node g, which nothing refers to, is collected: the nodes
\* made after g move down by one
Moved(v, g) == IF IsNode(v) /\ v.n > g THEN Ref(v.n - 1) ELSE v

Collected(h, g) ==
    [i \in 1..(Len(h) - 1) |->
        LET nd == h[IF i < g THEN i ELSE i + 1] IN
        [nd EXCEPT !.slot = [k \in DOMAIN nd.slot |-> Moved(nd.slot[k], g)],
                   !.nest = [j \in 1..Len(nd.nest) |-> Moved(nd.nest[j], g)]]]

\* the last call left the heap as A[key] = that would have, key being worked
\* out by f from coerce(that), a node that is garbage once the key is taken
SugarFor(f(_, _)) ==
    LET b == Box(old, last.that) IN
    IF b.exc # NoExc THEN Raised /\ last.exc = b.exc /\ SelfUnchanged
    ELSE LET key == Str(f(b.heap, b.ret))
             e == SetItem(b.heap, last.self, key, last.that)
         IN /\ Returned /\ e.exc = NoExc
            /\ last.ret = last.self
            /\ heap = IF IsStr(last.that) THEN Collected(e.heap, Len(old) + 1)
                       ELSE e.heap
            /\ DOMAIN Self.slot = DOMAIN OldSelf.slot \cup {key}
            /\ \A k \in DOMAIN OldSelf.slot \ {key} : Self.slot[k] = OldSelf.slot[k]
            /\ Coerced(Self.slot[key], last.that)
            /\ Self.nest = OldSelf.nest

\* C6: A << v leaves A as A[coerce(v).tag()] = v does and A >> v as
\* A[coerce(v).val()] = v does: one key is written, the child stored is the
\* coerced v, the nest is untouched; a raw string s goes under 's' by << and
\* under s by >>
C6_Sugar ==
    /\ last.op = "lshift" =>
           /\ SugarFor(Tag)
           /\ (IsStr(last.that) => Returned /\ Fresh(Self.slot[Str("s")]))
    /\ last.op = "rshift" =>
           /\ SugarFor(Val)
           /\ (IsStr(last.that) => Returned /\ Fresh(Self.slot[last.that]))

\* A << 'x' and then A >> C, the value of C being None
C6_Witness ==
    /\ prev.op = "lshift" /\ prev.that = Str("x") /\ prev.exc = NoExc
    /\ last.op = "rshift" /\ last.that = Ref(3) /\ Returned
    /\ Self.slot[Str("None")] = Ref(3)
    /\ Str("s") \in DOMAIN Self.slot

\* s without its element at position p, counted from 0
Without(s, p) == SubSeq(s, 1, p) \o SubSeq(s, p + 2, Len(s))

\* the nest of the receiver was given c at position p and is otherwise as it was
PlacedAt(p) ==
    /\ Len(Self.nest) = Len(OldSelf.nest) + 1
    /\ Coerced(Self.nest[p + 1], last.that)
    /\ Without(Self.nest, p) = OldSelf.nest

Boxable(v) == IsNode(v) \/ IsStr(v)

C7_WitnessInside ==
    /\ prev.op = "ins" /\ prev.idx = IntV(MaxNest + 1) /\ prev.exc = NoExc
    /\ last.op = "ins" /\ last.idx = IntV(1) /\ Returned /\ Len(OldSelf.nest) = 4

\* ins with an index far below zero, and then with one that is no integer
C7_WitnessNoInt ==
    /\ prev.op = "ins" /\ prev.idx = IntV(0 - (MaxNest + 1)) /\ prev.exc = NoExc
    /\ last.op = "ins" /\ last.idx = Str("1") /\ Raised /\ Len(OldSelf.nest) = 4

\* how often x is among the first i elements of s
RECURSIVE Count(_, _, _)
Count(s, x, i) ==
    IF i <= 0 THEN 0 ELSE Count(s, x, i - 1) + (IF s[i] = x THEN 1 ELSE 0)

\* C8: remove(t) leaves no element identical to t in the nest, keeps all the
\* others in their order and number, and changes nothing when t is not there;
\* elements are compared by identity, not by tag or value
C8_Remove ==
    (last.op = "remove" /\ IsNode(last.that)) =>
        /\ Returned /\ last.ret = last.self
        /\ \A j \in 1..Len(Self.nest) : Self.nest[j] # last.that
        /\ Self.nest = SelectSeq(OldSelf.nest, LAMBDA e : e # last.that)
        /\ \A j \in 1..Len(old) :
               Ref(j) # last.that =>
                   Count(Self.nest, Ref(j), Len(Self.nest))
                       = Count(OldSelf.nest, Ref(j), Len(OldSelf.nest))
        /\ Count(OldSelf.nest, last.that, Len(OldSelf.nest)) = 0
               => Self.nest = OldSelf.nest

\* remove(B) with B twice in the nest, beside another S node of the value of B
C8_Witness ==
    /\ last.op = "remove" /\ last.that = Ref(2) /\ Returned
    /\ Count(OldSelf.nest, Ref(2), Len(OldSelf.nest)) = 2
    /\ \E j \in 1..Len(Self.nest) :
           /\ Self.nest[j] # Ref(2)
           /\ heap[Self.nest[j].n].cls = heap[2].cls
           /\ heap[Self.nest[j].n].value = heap[2].value

\* remove of a node that is not in the nest
C8_WitnessAbsent ==
    /\ last.op = "remove" /\ IsNode(last.that) /\ Returned
    /\ OldSelf.nest # <<>>
    /\ Count(OldSelf.nest, last.that, Len(OldSelf.nest)) = 0

\* C9: before(anchor, v) and after(anchor, v) put the coerced v right before,
\* respectively right after, every occurrence of anchor: the nest grows by the
\* number of occurrences, its former elements keep their order, and it is as it
\* was when anchor is not in it
C9_BeforeAfter ==
    (last.op \in {"before", "after"} /\ IsNode(last.where) /\ Boxable(last.that)) =>
        LET o == OldSelf.nest
            n == Self.nest
            a == last.where
            \* where the former element i is now
            pos(i) == IF last.op = "before" THEN i + Count(o, a, i)
                      ELSE i + Count(o, a, i - 1)
            \* where the child put beside the former element i is now
            side(i) == IF last.op = "before" THEN pos(i) - 1 ELSE pos(i) + 1
        IN /\ Returned /\ last.ret = last.self
           /\ Len(n) = Len(o) + Count(o, a, Len(o))
           /\ \A i \in 1..Len(o) : n[pos(i)] = o[i]
           /\ \A i \in 1..Len(o) : o[i] = a => Coerced(n[side(i)], last.that)
           /\ \A i, j \in 1..Len(o) : (o[i] = a /\ o[j] = a) => n[side(i)] = n[side(j)]
           /\ Count(o, a, Len(o)) = 0 => n = o

\* before(B, 'x') with B twice in the nest
C9_Witness ==
    /\ last.op = "before" /\ last.where = Ref(2) /\ last.that = Str("x") /\ Returned
    /\ Count(OldSelf.nest, Ref(2), Len(OldSelf.nest)) = 2
    /\ Len(Self.nest) = Len(OldSelf.nest) + 2

\* after(B, C) with B twice in the nest, and after(A, C) with A not in it
C9_WitnessAfter ==
    /\ last.op = "after" /\ last.where = Ref(2) /\ last.that = Ref(3) /\ Returned
    /\ Count(OldSelf.nest, Ref(2), Len(OldSelf.nest)) = 2
    /\ prev.op = "after" /\ prev.where = Ref(1) /\ prev.exc = NoExc
    /\ Count(OldSelf.nest, Ref(1), Len(OldSelf.nest)) = 0

\* C10: drop(idx=-1, num=n) with n <= len(nest) removes n elements from the
\* end and keeps the first len(nest) - n in their order, with n > len(nest) it
\* fails; dropall() leaves the nest empty
C10_Drop ==
    /\ (last.op = "drop" /\ last.idx = IntV(0 - 1)) =>
           IF last.num.n <= Len(OldSelf.nest)
           THEN /\ Returned /\ last.ret = last.self
                /\ Len(Self.nest) = Len(OldSelf.nest) - last.num.n
                /\ Self.nest = SubSeq(OldSelf.nest, 1, Len(OldSelf.nest) - last.num.n)
           ELSE Raised /\ last.exc.kind = "IndexError"
    /\ last.op = "dropall" => Returned /\ last.ret = last.self /\ Self.nest = <<>>

\* drop(num=2) on a nest of three, and then a drop of more than is left
C10_Witness ==
    /\ prev.op = "drop" /\ prev.idx = IntV(0 - 1) /\ prev.num = IntV(2)
    /\ prev.exc = NoExc
    /\ OldSelf.nest = <<Ref(2)>>
    /\ last.op = "drop" /\ last.idx = IntV(0 - 1) /\ last.num = IntV(2)
    /\ last.exc.kind = "IndexError"

\* dropall() on a nest that was not empty
C10_WitnessDropAll == last.op = "dropall" /\ OldSelf.nest # <<>> /\ Self.nest = <<>>

NamedOps == {"setitem", "lshift", "rshift"}
OrderedOps == {"floordiv", "ins", "remove", "before", "after", "dropall", "drop"}

\* the keys of the receiver's slot map the last call wrote
Written ==
    {k \in DOMAIN Self.slot :
        k \notin DOMAIN OldSelf.slot \/ Self.slot[k] # OldSelf.slot[k]}

\* C11: a call changes its receiver alone: A[k] = v, << and >> change at most
\* one slot entry and leave nest and value as they were, the operators on the
\* nest leave the slot map and value as they were, and no other node (the child
\* put in, the anchor, the nodes dropped) is changed, whether the call returns
\* or raises
C11_Frame ==
    last.op # "init" =>
        /\ Len(heap) >= Len(old)
        /\ \A i \in 1..Len(old) : i # last.self.n => heap[i] = old[i]
        /\ Self.value = OldSelf.value /\ Self.cls = OldSelf.cls
        /\ Self.end = OldSelf.end /\ Self.pfx = OldSelf.pfx /\ Self.sfx = OldSelf.sfx
        /\ DOMAIN OldSelf.slot \subseteq DOMAIN Self.slot
        /\ last.op \in NamedOps =>
               Self.nest = OldSelf.nest /\ Cardinality(Written) <= 1
        /\ last.op \in OrderedOps => Self.slot = OldSelf.slot
        /\ last.op = "box" => Self = OldSelf

\* A << C wrote one slot entry, and then A // B made B a child of A
C11_Witness ==
    /\ prev.op = "lshift" /\ prev.that = Ref(3) /\ prev.exc = NoExc
    /\ last.op = "floordiv" /\ last.that = Ref(2) /\ Returned
    /\ Self.nest # OldSelf.nest
    /\ Self.slot = OldSelf.slot /\ DOMAIN Self.slot # {}

\* a drop that raised after it took elements out of the nest
C11_WitnessRaise ==
    /\ last.op = "drop" /\ Raised /\ Self.nest # OldSelf.nest
    /\ \A i \in 2..Len(old) : heap[i] = old[i]

(***************************************************************************)
(* The lines of the text a dump returned.                                  *)
(***************************************************************************)
OutText == out.text

\* the number of tabs line l starts with
TabsOf(l) ==
    CHOOSE k \in 0..Len(l) :
        (\A j \in 1..k : l[j] = "\t") /\ (k = Len(l) \/ l[k + 1] # "\t")

\* a set of numbers in ascending order
RECURSIVE Asc(_)
Asc(S) ==
    IF S = {} THEN <<>>
    ELSE LET m == CHOOSE x \in S : \A y \in S : x <= y IN <<m>> \o Asc(S \ {m})

\* the lines of text s, each from after a newline to before the next one: of
\* each its depth, the number of tabs it starts with, and its body, what comes
\* after the tabs
LinesOf(s) ==
    LET st == Asc({i \in 1..Len(s) : s[i] = "\n"}) IN
    [m \in 1..Len(st) |->
        LET l == SubSeq(s, st[m] + 1, IF m < Len(st) THEN st[m + 1] - 1 ELSE Len(s))
            k == TabsOf(l)
        IN [depth |-> k, body |-> SubSeq(l, k + 1, Len(l))]]

\* the line ends with the cycle marker
Marked(l) == Len(l.body) > 0 /\ l.body[Len(l.body)] = " _/"

\* <tag:value> of node v, with its identity when the dump is not for a test
Header(v) ==
    <<"<", LowerName(heap[v.n].cls), ":", FormatValue(heap[v.n].value), ">">>
    \o (IF out.test THEN <<>> ELSE <<" @", DigitStr(v.n)>>)

\* line l is prefix and the header of v, marked or not
LineIs(l, prefix, v) ==
    l.body \in {prefix \o Header(v), prefix \o Header(v) \o <<" _/">>}

\* line i of L is a prefix 'key = ' or 'i: ', none for the first line, and
\* the header of a node
WellFormed(L, i) ==
    IF i = 1 THEN LineIs(L[i], <<>>, out.root)
    ELSE /\ Len(L[i].body) > 2
         /\ L[i].body[2] \in {" = ", ": "}
         /\ \E v \in Nodes(heap) : LineIs(L[i], SubSeq(L[i].body, 1, 2), v)

\* the lines one deeper than line i, up to the next line that is not deeper
\* than it
ChildLines(L, i) ==
    {j \in (i + 1)..Len(L) :
        /\ L[j].depth = L[i].depth + 1
        /\ \A k \in (i + 1)..(j - 1) : L[k].depth > L[i].depth}

\* the lines below line i are the children of v: first one line for each key
\* of its slot map, in ascending order of the keys, then one line for each
\* element of its nest, in the order of the nest, numbered from 0
ExpandedAs(L, i, v) ==
    LET cs == Asc(ChildLines(L, i))
        slot == heap[v.n].slot
        nest == heap[v.n].nest
        nk == Cardinality(DOMAIN slot)
    IN /\ Len(cs) = nk + Len(nest)
       /\ \A k \in DOMAIN slot :
              \E m \in 1..nk : LineIs(L[cs[m]], <<k.s, " = ">>, slot[k])
       /\ \A m \in 1..nk : L[cs[m]].body[2] = " = "
       /\ \A m1, m2 \in 1..nk :
              m1 < m2 => StrLess(L[cs[m1]].body[1], L[cs[m2]].body[1])
       /\ \A j \in 1..Len(nest) :
              LineIs(L[cs[nk + j]], <<DigitStr(j - 1), ": ">>, nest[j])

\* the node whose identity line l shows
NodeAt(l) ==
    Ref(CHOOSE n \in 1..Len(heap) :
            \E q \in 1..(Len(l.body) - 1) :
                l.body[q] = " @" /\ l.body[q + 1] = DigitStr(n))

\* text without the identities of the nodes
RECURSIVE NoGid(_)
NoGid(s) ==
    IF s = <<>> THEN <<>>
    ELSE IF s[1] = " @" THEN NoGid(SubSeq(s, 3, Len(s)))
    ELSE <<s[1]>> \o NoGid(Tail(s))

Dumped == out.op = "dump" /\ out.exc = NoExc

\* C12: dump gives one line for each visit of a node: a newline, as many tabs
\* as the node is deep, the prefix and <tag:value>; below the line of a node
\* come, one deeper, first its named children in ascending order of their keys
\* with the prefix 'key = ', whatever the order they were put in, then its
\* ordered children in the order of the nest with the prefix 'i: ' from 0
C12_DumpOrder ==
    Dumped =>
        LET L == LinesOf(OutText) IN
        /\ Len(OutText) > 0 /\ OutText[1] = "\n"
        /\ \A i \in 1..Len(L) : WellFormed(L, i)
        /\ \A i \in 1..Len(L) : L[i].depth = 0 <=> i = 1
        /\ \A i \in 2..Len(L) : L[i].depth <= L[i - 1].depth + 1
        /\ ~Marked(L[1]) /\ ExpandedAs(L, 1, out.root)
        /\ ~out.test =>
               \A i \in 1..Len(L) :
                   IF Marked(L[i]) THEN ChildLines(L, i) = {}
                   ELSE ExpandedAs(L, i, NodeAt(L[i]))
        /\ out.test => OutText = NoGid(DumpRoot(heap, out.root, FALSE).text)

\* where piece x is in the text first
FirstAt(x) ==
    CHOOSE i \in 1..Len(OutText) : OutText[i] = x /\ \A j \in 1..(i - 1) : OutText[j] # x

\* A['b'] = C and then A['a'] = 'x', and in the dump of A for a test the line
\* of 'a' comes before the line of 'b', before the lines of the nest
C12_Witness ==
    /\ prev.op = "setitem" /\ prev.key = Str("b") /\ prev.that = Ref(3)
    /\ last.op = "setitem" /\ last.key = Str("a") /\ last.that = Str("x") /\ Returned
    /\ Dumped /\ out.root = Ref(1) /\ out.test
    /\ heap[1].nest # <<>>
    /\ FirstAt("a") < FirstAt("b")
    /\ FirstAt("b") < FirstAt("0")

C13_WitnessNamed ==
    /\ last.op = "setitem" /\ last.that = Ref(1) /\ Returned
    /\ out.op = "dump" /\ out.root = Ref(1) /\ out.test
    /\ SubSeq(OutText, FirstAt(last.key.s), FirstAt(last.key.s) + 7)
           = <<last.key.s, " = ">> \o Header(Ref(1)) \o <<" _/">>

(***************************************************************************)
(* The text a rendering returned.                                          *)
(***************************************************************************)
Rendered == out.op = "gen" /\ out.exc = NoExc

\* the node rendered, and the class whose gen rendered it
Root == heap[out.root.n]
RootGen == GenOf(Root.cls)

\* the text of node v at depth d in the same file
Sub(v, d) == gen(heap, v, out.to, d, FALSE, MaxDepth).text

\* the texts of the nodes of l at depth d, one after the other
RECURSIVE SubAll(_, _)
SubAll(l, d) == IF l = <<>> THEN <<>> ELSE Sub(l[1], d) \o SubAll(Tail(l), d)

\* the line of the pieces x, indented by d units of the file
Indented(d, x) == [i \in 1..d |-> out.to.tab] \o x \o <<"\n">>

\* the line of a pfx or sfx x: none for None, an empty line for '', else the
\* text indented by d units
AffixLine(d, x) ==
    CASE x = NoneV -> <<>>
      [] x = Str("") -> <<"\n">>
      [] OTHER -> Indented(d, <<x.s>>)

\* where piece x is in the text last
Final(x) == CHOOSE i \in 1..Len(OutText) : OutText[i] = x /\ \A j \in (i + 1)..Len(OutText) : OutText[j] # x

\* the rendering of the root, were its named children taken away
NoSlotText ==
    gen([heap EXCEPT ![out.root.n].slot = EmptySlot],
        out.root, out.to, out.depth, FALSE, MaxDepth).text

\* C14: S.gen at depth d gives, in this order, the pfx line if pfx is not
\* None, the value line indented by d units if the value is not None, every
\* ordered child at depth d+1 in the order of the nest, the end line indented
\* by d units if end is not None, and the sfx line if sfx is not None; the
\* named children add nothing
C14_SGen ==
    (Rendered /\ RootGen = "S") =>
        LET d == out.depth IN
        /\ OutText =
               AffixLine(d, Root.pfx)
               \o (IF Root.value = NoneV THEN <<>>
                   ELSE Indented(d, Piece(FormatValue(Root.value))))
               \o SubAll(Root.nest, d + 1)
               \o (IF Root.end = NoneV THEN <<>> ELSE Indented(d, Piece(Root.end.s)))
               \o AffixLine(d, Root.sfx)
        /\ OutText = NoSlotText

\* S('a', 'p', 'p', 'p') with a named child and, after 1 // S('b'), two
\* ordered children, rendered at depth 1: all five parts are there
C14_Witness ==
    /\ last.op = "floordiv" /\ last.self = Ref(1) /\ last.that = Ref(6) /\ Returned
    /\ Rendered /\ out.root = Ref(1) /\ out.depth = 1
    /\ DOMAIN Root.slot # {}
    /\ Root.nest = <<Ref(6), Ref(6)>>
    /\ OutText = Indented(1, <<"p">>) \o Indented(1, <<"a">>)
                 \o Indented(2, <<"b">>) \o Indented(2, <<"b">>)
                 \o Indented(1, <<"p">>) \o Indented(1, <<"p">>)

\* the rendering of the root, were its field f set to x
RenderWith(f, x) ==
    gen([heap EXCEPT ![out.root.n] = [@ EXCEPT ![f] = x]],
        out.root, out.to, out.depth, FALSE, MaxDepth).text

\* text b is text a with one empty line put in
BlankAdded(a, b) ==
    \E q \in 0..Len(a) : b = SubSeq(a, 1, q) \o <<"\n">> \o SubSeq(a, q + 1, Len(a))

\* C15: for a block text node rendered at any depth and each of pfx, sfx and
\* end, None adds no text and '' adds exactly one empty line, with no
\* indentation, so the two renderings differ
C15_BlankLine ==
    (Rendered /\ RootGen = "S") =>
        \A f \in {"pfx", "sfx", "end"} :
            BlankAdded(RenderWith(f, NoneV), RenderWith(f, Str("")))

\* S('a', end='') // 'b' rendered at depth 1: the line of end is the
\* indentation and a newline, where pfx = '' and sfx = '' give a bare newline
C15_Witness ==
    /\ Rendered /\ out.root = Ref(1) /\ out.depth = 1
    /\ Root.end = Str("") /\ Root.sfx = Str("") /\ Root.nest = <<Ref(6)>>
    /\ OutText = <<"\n">> \o Indented(1, <<"a">>) \o Indented(2, <<"b">>)
                 \o <<out.to.tab, "\n">> \o <<"\n">>

\* the banner lines of the section rendered
OpenBanner == Indented(out.depth, <<out.to.comment, " \\ ">> \o Piece(FormatValue(Root.value)))
CloseBanner == Indented(out.depth, <<out.to.comment, " / ">> \o Piece(FormatValue(Root.value)))

\* a text node without ordered children
LeafText(v) == GenOf(heap[v.n].cls) = "S" /\ heap[v.n].nest = <<>>

\* C16: a Sec without ordered children renders to the empty text in every
\* file and at every depth, whatever its value, pfx and sfx; a Sec with a value
\* and one leaf child renders to a text that is not empty, where the open
\* banner and the close banner, both with the comment marker of the file and
\* the value of the section, enclose the text of the child
C16_SecSuppression ==
    (out.op = "gen" /\ RootGen = "Sec") =>
        /\ Root.nest = <<>> => (out.exc = NoExc /\ OutText = <<>>)
        /\ (Root.value # NoneV /\ Len(Root.nest) = 1 /\ LeafText(Root.nest[1])) =>
               /\ out.exc = NoExc
               /\ Sub(Root.nest[1], out.depth) # <<>>
               /\ OutText = AffixLine(out.depth, Root.pfx)
                            \o OpenBanner
                            \o Sub(Root.nest[1], out.depth)
                            \o CloseBanner
                            \o AffixLine(out.depth, Root.sfx)

\* Sec('s') rendered to nothing before, and after Sec('s') // S('b') it
\* renders to the banners around b
C16_Witness ==
    /\ last.op = "floordiv" /\ last.self = Ref(2) /\ last.that = Ref(6) /\ Returned
    /\ old[2].nest = <<>>
    /\ gen(old, Ref(2), out.to, out.depth, FALSE, MaxDepth).text = <<>>
    /\ Rendered /\ out.root = Ref(2)
    /\ Root.nest = <<Ref(6)>>
    /\ FirstAt(" \\ ") < FirstAt("b") /\ FirstAt("b") < FirstAt(" / ")

\* what is rendered between the open banner and the close banner
BetweenBanners ==
    SubSeq(OutText, FirstAt(" \\ ") + Len(Piece(FormatValue(Root.value))) + 2,
           Final(" / ") - out.depth - 2)

\* C17: the text of a Sec is empty or has at least one line between its open
\* and its close banner, also when its only children are sections that render
\* to nothing
C17_NeverEmpty ==
    (Rendered /\ RootGen = "Sec" /\ Root.value # NoneV) =>
        \/ OutText = <<>>
        \/ BetweenBanners # <<>>

\* Sec('s') // Sec('t'): the banners of s with nothing between them
C17_Witness ==
    /\ last.op = "floordiv" /\ last.self = Ref(2) /\ last.that = Ref(7) /\ Returned
    /\ Rendered /\ out.root = Ref(2) /\ out.depth = 0
    /\ Root.nest = <<Ref(7)>> /\ heap[7].nest = <<>>
    /\ Root.pfx = NoneV /\ Root.sfx = NoneV
    /\ OutText = OpenBanner \o CloseBanner

\* the nodes of set S and all the nodes below them, through the nests
RECURSIVE Reach(_)
Reach(S) ==
    LET T == S \cup UNION {{heap[w.n].nest[i] : i \in 1..Len(heap[w.n].nest)} : w \in S}
    IN IF T = S THEN S ELSE Reach(T)

\* the descendants of node v: its children, their children and so on
Below(v) == Reach({heap[v.n].nest[i] : i \in 1..Len(heap[v.n].nest)})

\* piece x is in the rendered text
InText(x) == \E i \in 1..Len(OutText) : OutText[i] = x

\* C18: an inline markup node renders all its descendants on one line between
\* its opening and its closing tag: the only newline is the one that ends the
\* line, nothing is indented, the text of every descendant is there, and no
\* kind of descendant makes the rendering fail
C18_Inline ==
    (out.op = "gen" /\ RootGen = "HTMLI") =>
        /\ out.exc = NoExc
        /\ OutText # <<>>
        /\ \A i \in 1..Len(OutText) : OutText[i] = "\n" <=> i = Len(OutText)
        /\ \A i \in (out.depth + 1)..Len(OutText) : OutText[i] # out.to.tab
        /\ \A v \in Below(out.root) :
               heap[v.n].value # NoneV => InText(heap[v.n].value.s)

\* SPAN() // (S('a') // S('b')): b is not in the text
C18_Witness ==
    /\ last.op = "floordiv" /\ last.self = Ref(4) /\ last.that = Ref(1) /\ Returned
    /\ Rendered /\ out.root = Ref(4) /\ out.depth = 0
    /\ Root.nest = <<Ref(1)>> /\ heap[1].nest = <<Ref(6)>>
    /\ OutText = <<"<", "span", ">", "a", "</", "span", ">", "\n">>

\* SPAN() // Sec('t'): Sec.gen does not take inline
C18_WitnessRaise ==
    /\ last.op = "floordiv" /\ last.self = Ref(4) /\ last.that = Ref(7) /\ Returned
    /\ out.op = "gen" /\ out.root = Ref(4)
    /\ out.exc.kind = "TypeError"

\* the opening tag of the root: the pieces after < and the tag, up to the first >
Attrs == SubSeq(OutText, out.depth + 3, FirstAt(">") - 1)

\* the key and the value of the m-th attribute, from 0
AttrKey(m) == Attrs[5 * m + 2]
AttrVal(m) == Attrs[5 * m + 4]

Markup == {"HTML", "HTMLI", "HTMLS"}

\* C19: the opening tag of a markup element has every named child as
\* key="value", in ascending order of the keys, whatever the order they were
\* put in; without named children it has no attribute text and no space
\* before the >
C19_Attributes ==
    (Rendered /\ RootGen \in Markup) =>
        LET nk == Cardinality(DOMAIN Root.slot) IN
        /\ SubSeq(OutText, 1, out.depth + 2)
               = [i \in 1..out.depth |-> out.to.tab] \o <<"<", Root.value.s>>
        /\ Len(Attrs) = 5 * nk
        /\ \A m \in 0..(nk - 1) :
               /\ Attrs[5 * m + 1] = " "
               /\ Str(AttrKey(m)) \in DOMAIN Root.slot
               /\ Attrs[5 * m + 3] = "=\""
               /\ AttrVal(m) = heap[Root.slot[Str(AttrKey(m))].n].value.s
               /\ Attrs[5 * m + 5] = "\""
        /\ \A m1, m2 \in 0..(nk - 1) : m1 < m2 => StrLess(AttrKey(m1), AttrKey(m2))

\* DIV(id='x', clazz='y'): id was put in first, and class="y" comes first
C19_Witness ==
    /\ last.op = "html" /\ Returned
    /\ Rendered /\ out.root = last.ret
    /\ DOMAIN Root.slot = {Str("id"), Str("class")}
    /\ Root.slot[Str("id")].n < Root.slot[Str("class")].n
    /\ Attrs = <<" ", "class", "=\"", "y", "\"", " ", "id", "=\"", "x", "\"">>

\* DIV(): no attribute and no space
C19_WitnessBare ==
    /\ last.op = "html" /\ Returned
    /\ Rendered /\ out.root = last.ret /\ out.depth = 0
    /\ OutText = <<"<", "div", ">", "\n", "</", "div", ">", "\n">>

\* the first line of the rendered text, with its newline
FirstLine == SubSeq(OutText, 1, FirstAt("\n"))

\* C20: a block element at depth d renders the line of its opening tag at
\* depth d, each ordered child at depth d+1 in the order of the nest, and the
\* line of the closing tag at depth d; a self-closing element renders the line
\* of its opening tag and nothing else, whatever its children; an inline
\* element has its closing tag on the line of its opening tag, not indented
C20_Shapes ==
    Rendered =>
        LET d == out.depth
            v == Root.value.s
        IN
        /\ RootGen = "HTML" =>
               OutText = FirstLine \o SubAll(Root.nest, d + 1) \o Indented(d, <<"</", v, ">">>)
        /\ RootGen = "HTMLS" => OutText = FirstLine
        /\ RootGen = "HTMLI" =>
               /\ OutText = FirstLine
               /\ SubSeq(OutText, Len(OutText) - 3, Len(OutText)) = <<"</", v, ">", "\n">>

\* SPAN() // DIV(): the closing tag of span is three lines below its opening tag
C20_Witness ==
    /\ last.op = "floordiv" /\ last.self = Ref(4) /\ last.that = Ref(3) /\ Returned
    /\ Rendered /\ out.root = Ref(4) /\ out.depth = 0
    /\ Root.nest = <<Ref(3)>> /\ heap[3].nest = <<Ref(1)>>
    /\ FirstLine = <<"<", "span", ">", out.to.tab, "<", "div", ">", "\n">>
    /\ SubSeq(OutText, Len(OutText) - 8, Len(OutText))
           = <<out.to.tab, "</", "div", ">", "\n", "</", "span", ">", "\n">>

\* META() // S('b'): the child is not rendered
C20_WitnessSelfClosing ==
    /\ Rendered /\ out.root = Ref(5) /\ out.depth = 1
    /\ Root.nest # <<>>
    /\ OutText = <<out.to.tab, "<", "meta", ">", "\n">>

(***************************************************************************)
(* A drop that fails.                                                      *)
(***************************************************************************)
\* C28: a drop(idx, num) that raises leaves the nest of its receiver exactly
\* as it was before the call: a call that fails has removed no element
C28_DropAtomic ==
    (last.op = "drop" /\ Raised) => Self.nest = OldSelf.nest

\* drop(num=3) on a nest of two: both elements are gone when the third pop
\* raises IndexError
C28_Witness ==
    /\ last.op = "drop" /\ last.idx = IntV(0 - 1) /\ last.num = IntV(3)
    /\ last.exc.kind = "IndexError"
    /\ Len(OldSelf.nest) = 2
    /\ Self.nest = <<>>

(***************************************************************************)
(* The visited list of dump.                                               *)
(***************************************************************************)
\* the nodes of set S and all the nodes below them, through slots and nests
RECURSIVE ReachAll(_)
ReachAll(S) ==
    LET T == S \cup UNION {{heap[w.n].nest[i] : i \in 1..Len(heap[w.n].nest)}
                           \cup {heap[w.n].slot[k] : k \in DOMAIN heap[w.n].slot}
                           : w \in S}
    IN IF T = S THEN S ELSE ReachAll(T)

\* the number of edges that leave the nodes of set S
RECURSIVE Edges(_)
Edges(S) ==
    IF S = {} THEN 0
    ELSE LET w == CHOOSE x \in S : TRUE IN
         Cardinality(DOMAIN heap[w.n].slot) + Len(heap[w.n].nest) + Edges(S \ {w})

\* C26: in one dump every node has its children expanded at most once: its
\* first line in the text is expanded, every later line of the same node, be
\* the node above itself, shared by two parents or twice in one nest, is its
\* header with ' _/' and has nothing below; so there are no more lines than
\* edges that can be reached from the root, plus one
C26_ExpandedOnce ==
    Dumped =>
        LET L == LinesOf(OutText) IN
        /\ Len(L) <= Edges(ReachAll({out.root})) + 1
        /\ ~out.test =>
               \A i \in 1..Len(L) :
                   /\ Marked(L[i]) <=> \E j \in 1..(i - 1) : NodeAt(L[j]) = NodeAt(L[i])
                   /\ Cardinality(ChildLines(L, i)) =
                          IF Marked(L[i]) THEN 0
                          ELSE Cardinality(DOMAIN heap[NodeAt(L[i]).n].slot)
                               + Len(heap[NodeAt(L[i]).n].nest)

\* A with B under the key k and B twice in the nest: B is expanded under k
\* and marked at 0: and at 2:, though B is not above itself
C26_Witness ==
    /\ Dumped /\ out.root = Ref(1) /\ ~out.test
    /\ last.op = "floordiv" /\ last.self = Ref(2) /\ last.that = Ref(3) /\ Returned
    /\ heap[1].nest = <<Ref(2), Ref(3), Ref(2)>>
    /\ DOMAIN heap[1].slot = {Str("k")}
    /\ heap[1].slot[Str("k")] = Ref(2)
    /\ Ref(1) \notin ReachAll({Ref(2)})
    /\ LET L == LinesOf(OutText) IN
       /\ Len(L) = 6
       /\ ~Marked(L[2]) /\ NodeAt(L[2]) = Ref(2) /\ ChildLines(L, 2) = {3}
       /\ Marked(L[4]) /\ NodeAt(L[4]) = Ref(2)
       /\ Marked(L[5]) /\ NodeAt(L[5]) = Ref(3)
       /\ Marked(L[6]) /\ NodeAt(L[6]) = Ref(2)

\* C27: the visited list of dump carries nothing from one top-level call to
\* the next: the default list is never appended to, so every dump is the text
\* a first dump of the graph gives; two dumps of a graph in test mode one after
\* the other are the same text, and a node dumped on its own after it was
\* dumped inside a larger graph is expanded
C27_NoCarry ==
    /\ cycleDefault = <<>>
    /\ out.op = "dump" =>
           /\ out.text = DumpRoot(heap, out.root, out.test).text
           /\ ~Marked(LinesOf(OutText)[1])
           /\ (last.op = "dump" /\ out.root = last.self /\ out.test) =>
                  out.text = DumpWith(heap, <<>>, last.self, TRUE).text

\* A.test() and then B.test(), where B with its child C is below A: the second
\* dump is B with C below it
C27_Witness ==
    /\ last.op = "dump" /\ last.self = Ref(1)
    /\ prev.op = "floordiv" /\ prev.self = Ref(2) /\ prev.that = Ref(3)
    /\ Ref(2) \in ReachAll({Ref(1)}) \ {Ref(1)}
    /\ Dumped /\ out.root = Ref(2) /\ out.test
    /\ OutText = <<"\n", "<", "s", ":", "x", ">",
                   "\n", "\t", "0", ": ", "<", "s", ":", "None", ">">>

\* A.test() twice
C27_WitnessTwice ==
    /\ last.op = "dump" /\ last.self = Ref(1)
    /\ Dumped /\ out.root = Ref(1) /\ out.test
    /\ Len(LinesOf(OutText)) > 1

(***************************************************************************)
(* Declarations.                                                           *)
(***************************************************************************)
\* text x is found inside the string s, for the declaration lines of the model
Contains(s, x) ==
    <<s, x>> \in { <<"fn run() {", "run() {">>, <<"def run():", "run():">>,
                   <<"fn get(self, k) -> str {", "get(self, k) -> str {">>,
                   <<"def get(self, k):", "get(self, k):">> }

\* the texts of the nodes of l at depth d in file to, one after the other
RECURSIVE KidsOn(_, _, _)
KidsOn(to, l, d) ==
    IF l = <<>> THEN <<>>
    ELSE gen(heap, l[1], to, d, FALSE, MaxDepth).text \o KidsOn(to, Tail(l), d)

\* the line that closes a block in braces
BraceLine == Indented(out.depth, <<"}">>)

\* Fn('run') was rendered to a source file
RunRendered == Rendered /\ out.root = Ref(1) /\ out.to.cls \in {"rsFile", "pyFile"}

\* the rendering of Fn('run') has the declaration line of the file's language,
\* the children one deeper in the order of the nest and, in braces only, the
\* closing line
RunShape ==
    LET d == out.depth
        decl == OutText[d + 1]
    IN
    /\ Len(OutText) > d + 1
    /\ out.to.cls = "rsFile" =>
           /\ Contains(decl, "run() {")
           /\ OutText = Indented(d, <<decl>>) \o KidsOn(out.to, Root.nest, d + 1) \o BraceLine
    /\ out.to.cls = "pyFile" =>
           /\ Contains(decl, "run():")
           /\ OutText = Indented(d, <<decl>>) \o KidsOn(out.to, Root.nest, d + 1)
           /\ \A i \in 1..Len(OutText) : OutText[i] # "}"

\* C21 as it was stated: Fn('run') renders to a Rust file with 'run() {' in
\* the declaration line and a closing '}' line, to a Python file with 'run():'
\* and no '}' line, and the children are in both one deeper, in the same order
\* and with the same text
C21_Original ==
    RunRendered =>
        /\ RunShape
        /\ KidsOn(rsFile, Root.nest, out.depth + 1) = KidsOn(pyFile, Root.nest, out.depth + 1)

\* C21: Fn('run') renders to a Rust file with 'run() {' in the declaration
\* line and a closing '}' line, to a Python file with 'run():' and no '}' line;
\* in both the children are one deeper and in the order of the nest, each with
\* the text its own rendering to that file gives, which is the same in the two
\* files when all that is below are text nodes
C21_Dialect ==
    RunRendered =>
        /\ RunShape
        /\ (\A v \in Below(out.root) : GenOf(heap[v.n].cls) = "S") =>
               KidsOn(rsFile, Root.nest, out.depth + 1)
                   = KidsOn(pyFile, Root.nest, out.depth + 1)

\* Fn('run') // S('a') // Sec('s') rendered to a Rust file: the section below
\* it has the banners of Rust
C21_Witness ==
    /\ RunRendered /\ out.to = rsFile /\ out.depth = 0
    /\ Root.nest = <<Ref(4), Ref(5)>>
    /\ OutText = <<"fn run() {", "\n",
                   "    ", "a", "\n",
                   "    ", "//", " \\ ", "s", "\n",
                   "    ", "b", "\n",
                   "    ", "//", " / ", "s", "\n",
                   "}", "\n">>

\* the same tree rendered to a Python file
C21_WitnessColon ==
    /\ RunRendered /\ out.to = pyFile /\ out.depth = 1
    /\ Root.nest = <<Ref(4), Ref(5)>>
    /\ OutText = <<"    ", "def run():", "\n",
                   "    ", "    ", "a", "\n",
                   "    ", "    ", "#", " \\ ", "s", "\n",
                   "    ", "    ", "b", "\n",
                   "    ", "    ", "#", " / ", "s", "\n">>

\* the ordered children of node v, each with the inline flag f
KidsAs(v, f) == {<<heap[v.n].nest[i], f>> : i \in 1..Len(heap[v.n].nest)}

\* the calls of gen that the call of p, a node and an inline flag, makes when
\* nothing fails
Calls(p) ==
    LET g == GenOf(heap[p[1].n].cls) IN
    CASE g = "S" -> IF p[2] THEN {} ELSE KidsAs(p[1], FALSE)
      [] g = "HTML" -> KidsAs(p[1], FALSE)
      [] g = "HTMLI" -> KidsAs(p[1], TRUE)
      [] g = "HTMLS" -> {}
      [] g = "Fn" -> IF p[2] \/ out.to.cls \notin {"rsFile", "pyFile"} THEN {}
                     ELSE KidsAs(p[1], FALSE)
      [] OTHER -> IF p[2] THEN {} ELSE KidsAs(p[1], FALSE)

RECURSIVE CalledFrom(_)
CalledFrom(S) ==
    LET T == S \cup UNION {Calls(p) : p \in S} IN
    IF T = S THEN S ELSE CalledFrom(T)

\* the nodes that gen is called on when the root is rendered and nothing fails
Called == {p[1] : p \in CalledFrom({<<out.root, FALSE>>})}

\* node v is a function or a method
IsFn(v) == GenOf(heap[v.n].cls) = "Fn"

\* the rendering is to a file that is neither a Rust nor a Python source
OtherFile == out.op = "gen" /\ out.to.cls \notin {"rsFile", "pyFile"}

C22_WitnessDropped ==
    /\ OtherFile /\ out.root = Ref(7) /\ Root.nest = <<Ref(1)>>
    /\ out.exc = NoExc
    /\ OutText = <<"<", "meta", ">", "\n">>

\* SPAN() // (S('a') // Fn('run')) rendered to a Makefile: a alone
C22_WitnessInline ==
    /\ OtherFile /\ out.root = Ref(8) /\ Root.nest = <<Ref(4)>>
    /\ heap[4].nest = <<Ref(1)>>
    /\ out.exc = NoExc
    /\ OutText = <<"<", "span", ">", "a", "</", "span", ">", "\n">>

\* a class was rendered
ClassRendered == out.op = "gen" /\ RootGen = "Class"

\* the declaration line of the text is in the shape with a colon
ColonShape == OutText[out.depth + 1] \in {"class A:", "class A: pass",
                                          "class K:", "class K(A):"}

\* C23: a Class renders by the file: to a Rust source as a block in braces,
\* with the closing brace as its last line, to a Python source in the shape
\* with a colon, and to a file of another kind the rendering fails
C23_ByDialect ==
    ClassRendered =>
        /\ out.to.cls = "rsFile" =>
               /\ out.exc = NoExc
               /\ Len(OutText) > Len(BraceLine)
               /\ SubSeq(OutText, Len(OutText) - Len(BraceLine) + 1, Len(OutText)) = BraceLine
        /\ out.to.cls = "pyFile" => (out.exc = NoExc /\ ColonShape)
        /\ out.to.cls \notin {"rsFile", "pyFile"} => (out.exc # NoExc /\ OutText = <<>>)

\* Class('A') rendered to a Rust source: the line of Python
C23_Witness ==
    /\ ClassRendered /\ out.root = Ref(9) /\ out.to = rsFile /\ out.depth = 0
    /\ out.exc = NoExc
    /\ OutText = <<"class A: pass", "\n">>

\* Class('A') rendered to a Makefile: the same line and no failure
C23_WitnessOther ==
    /\ ClassRendered /\ out.root = Ref(9) /\ out.to = mkFile /\ out.depth = 1
    /\ out.exc = NoExc
    /\ OutText = <<"\t", "class A: pass", "\n">>

(***************************************************************************)
(* The traversals and the tree.                                            *)
(***************************************************************************)
\* the nodes there were before the traversal, as they are after it
Kept == IF Len(heap) >= Len(old) THEN SubSeq(heap, 1, Len(old)) ELSE <<>>

\* the same rendering, made on the tree as it was before the first one
Alone == gen(old, out.root, out.to, out.depth, FALSE, MaxDepth)

\* C24: gen and dump leave every node that was there, of whatever class, with
\* the value, the slot, the nest, the pfx, sfx and end and the args it had,
\* whether they return or raise; so a second rendering of the tree, to any
\* file, gives what it gives on a tree that was never rendered
C24_ReadOnly ==
    /\ out.op = "gen" =>
           /\ Kept = old
           /\ last.op = "gen" => (out.text = Alone.text /\ out.exc = Alone.exc)
    /\ out.op = "dump" => heap = old

\* Fn('run') // S('a') // Sec('s') rendered to a Rust source and then to a
\* Python source: the nodes that made the lines are left behind the tree
C24_Witness ==
    /\ last.op = "gen" /\ last.that = rsFile /\ out.to = pyFile
    /\ Rendered /\ out.root = Ref(1) /\ Root.nest = <<Ref(4), Ref(5)>>
    /\ Len(heap) > Len(old)
    /\ OutText = <<"def run():", "\n",
                   "    ", "a", "\n",
                   "    ", "#", " \\ ", "s", "\n",
                   "    ", "b", "\n",
                   "    ", "#", " / ", "s", "\n">>

\* DIV() // (Class('K') // Meth('get')) rendered to a Makefile, where the
\* method raises, and then to a Rust source
C24_WitnessRaise ==
    /\ last.op = "gen" /\ last.that = mkFile /\ out.to = rsFile
    /\ Rendered /\ out.root = Ref(11)
    /\ Len(heap) > Len(old)

\* the dump of a tree with a function in it
C24_WitnessDump ==
    /\ out.op = "dump" /\ out.root = Ref(4) /\ out.exc = NoExc
    /\ heap[4].nest = <<Ref(1), Ref(5)>>

(***************************************************************************)
(* Sections.                                                               *)
(***************************************************************************)
\* how many pieces of the text are x
Pieces(x) == Cardinality({i \in 1..Len(OutText) : OutText[i] = x})

\* all that is below the root are sections and text nodes without children
FlatBelow ==
    \A v \in Below(out.root) : GenOf(heap[v.n].cls) = "Sec" \/ LeafText(v)

\* C29: a Sec with ordered children rendered at depth d gives the pfx line,
\* the open banner when its value is not None, every ordered child at depth d
\* in the order of the nest, the close banner when its value is not None, and
\* the sfx line; its end is never in the text; so when only sections and leaf
\* text nodes are below it every line is indented by d units, however deep the
\* sections are nested
C29_SecFlat ==
    (Rendered /\ RootGen = "Sec" /\ Root.nest # <<>>) =>
        LET d == out.depth IN
        /\ OutText = AffixLine(d, Root.pfx)
                     \o (IF Root.value = NoneV THEN <<>> ELSE OpenBanner)
                     \o SubAll(Root.nest, d)
                     \o (IF Root.value = NoneV THEN <<>> ELSE CloseBanner)
                     \o AffixLine(d, Root.sfx)
        /\ OutText = RenderWith("end", NoneV)
        /\ Root.end # NoneV => ~InText(Root.end.s)
        /\ FlatBelow => Pieces(out.to.tab) = d * Pieces("\n")

\* Sec('s', 'e') // (Sec() // S('b')) rendered at depth 1 to a Rust source:
\* the banners of s around b, all at depth 1, and no banner of the section
\* without a value
C29_Witness ==
    /\ Rendered /\ out.root = Ref(5) /\ out.to = rsFile /\ out.depth = 1
    /\ Root.end = Str("e") /\ Root.nest = <<Ref(6)>>
    /\ heap[6].value = NoneV /\ heap[6].nest = <<Ref(10)>>
    /\ OutText = <<"    ", "//", " \\ ", "s", "\n",
                   "    ", "b", "\n",
                   "    ", "//", " / ", "s", "\n">>

\* Sec() // S('b') rendered at depth 0: b alone
C29_WitnessNoValue ==
    /\ Rendered /\ out.root = Ref(6) /\ out.depth = 0
    /\ OutText = <<"b", "\n">>

(***************************************************************************)
(* Files on the disk.                                                      *)
(***************************************************************************)
\* the path of the file, and the file on the disk
FilePath == heap[TheFile.n].path
OnDisk == FilePath \in DOMAIN disk

\* the text of the file: top, every ordered child and bot rendered to it
Whole ==
    LET n == heap[TheFile.n] IN
    genKids(heap, <<n.top>> \o n.nest \o <<n.bot>>, SinkOf(n), 0, FALSE, MaxDepth)

\* C25: after a sync, whether it returned or raised, the file holds its whole
\* rendered text, or it is as it was before the sync: not there if it was not
\* there, and with the text it had if it was
C25_NoPartial ==
    last.op = "sync" =>
        \/ /\ OnDisk = out.test
           /\ OnDisk => disk[FilePath].text = out.text
        \/ /\ OnDisk
           /\ Whole.exc = NoExc
           /\ disk[FilePath].text = Whole.text

\* File('c') // 'x' // Fn('run') and sync: the function raises and the file,
\* which was not there, holds the line before it
C25_Witness ==
    /\ last.op = "sync" /\ last.self = TheFile
    /\ last.exc = TypeError("gen", "File", NoneV)
    /\ heap[TheFile.n].nest = <<Ref(6), Ref(7)>>
    /\ ~out.test
    /\ OnDisk
    /\ disk[FilePath] = AFile(<<"x", "\n">>)

\* File('c') // Fn('run') and sync: an empty file is left
C25_WitnessEmpty ==
    /\ last.op = "sync" /\ last.self = TheFile /\ Raised
    /\ heap[TheFile.n].nest = <<Ref(7)>>
    /\ ~out.test
    /\ OnDisk
    /\ disk[FilePath] = AFile(<<>>)

\* a sync that returns leaves the whole text
C25_WitnessWhole ==
    /\ last.op = "sync" /\ last.self = TheFile /\ Returned
    /\ heap[TheFile.n].nest = <<Ref(6), Ref(6)>>
    /\ OnDisk
    /\ disk[FilePath] = AFile(<<"x", "\n", "x", "\n">>)

\* the directories and the file
IONodes == IODirs \cup {TheFile}

\* the directories that node v was pushed into, once for every push
Pushes(v) ==
    {<<p, i>> \in IODirs \X (1..MaxNest + 1) :
        i <= Len(heap[p.n].nest) /\ heap[p.n].nest[i] = v}

\* every node has one parent at most and no directory is below itself
IsTree ==
    /\ \A v \in IONodes : Cardinality(Pushes(v)) <= 1
    /\ \A p \in IODirs : p \notin Below(p)

\* C30: in a tree of directories and files the path of every node that has a
\* parent is the path of the parent, a slash and its own name, and the path of
\* a node without a parent is its name, in whatever order the pushes were made
C30_PathComposition ==
    IsTree =>
        \A v \in IONodes :
            /\ Pushes(v) = {} => heap[v.n].path = <<heap[v.n].value.s>>
            /\ \A q \in Pushes(v) :
                   heap[v.n].path = heap[q[1].n].path \o <<heap[v.n].value.s>>

\* b // c and then a // b: c is left with the path b/c below a/b
C30_Witness ==
    /\ last.op = "floordiv" /\ last.self = Ref(1) /\ last.that = Ref(2) /\ Returned
    /\ prev.op = "floordiv" /\ prev.self = Ref(2) /\ prev.that = TheFile
    /\ IsTree
    /\ heap[1].nest = <<Ref(2)>> /\ heap[2].nest = <<TheFile>>
    /\ heap[2].path = <<"a", "b">>
    /\ heap[3].path = <<"b", "c">>

\* a // b and then b // c: every path is the chain of names
C30_WitnessDown ==
    /\ last.op = "floordiv" /\ last.self = Ref(2) /\ last.that = TheFile /\ Returned
    /\ prev.op = "floordiv" /\ prev.self = Ref(1) /\ prev.that = Ref(2)
    /\ heap[2].path = <<"a", "b">>
    /\ heap[3].path = <<"a", "b", "c">>

\* the tree of C30_Witness written to the disk: there is no directory b
C30_WitnessSync ==
    /\ last.op = "sync" /\ last.self = Ref(1)
    /\ last.exc = FileNotFoundError
    /\ heap[1].nest = <<Ref(2)>> /\ heap[2].nest = <<TheFile>>
    /\ DOMAIN disk = {<<"a">>, <<"a", "b">>}

====
